---- MODULE Spec2Model ----
(***************************************************************************)
(* A model of rustdoc's document graph builder (src/src/json/mod.rs),      *)
(* its JSON-API document types (src/src/json/api.rs) and the summary       *)
(* attributes (src/src/json/attributes.rs).                                *)
(*                                                                         *)
(* Spec     : create_documentation run against a bounded analysis host.    *)
(* SpecApi  : a client of the json::api builder methods that serializes    *)
(*            the Documentation it has built and parses it back.           *)
(* SpecDoctest : gather_tests (find_test_blocks, preprocess) of            *)
(*            src/src/test.rs applied to one Document.                     *)
(* SpecTest : a test run: find_tests, save_tests, compile_tests and        *)
(*            execute_tests on a Documentation.                            *)
(* SpecAttributes : summary and plain_summary applied to one doc comment.  *)
(* SpecTarget : target_from_metadata (src/src/cargo/mod.rs) applied to the *)
(*            targets of one package.                                      *)
(* SpecDocData : the parallel traversal recur of DocData::new              *)
(*            (src/src/lib.rs) on a definition tree.                       *)
(***************************************************************************)
EXTENDS Integers, Sequences, FiniteSets, TLC

VARIABLES
    host,           \* the AnalysisHost: kinds and child lists of the definitions
    crate_name,     \* the crate name create_documentation is called with
    pc,             \* position inside create_documentation
    document,       \* the root ("crate") Document under construction
    queue,          \* the VecDeque work queue of definition ids
    included,       \* the Vec<Document> under construction
    outcome,        \* "running" | "Ok" | "Err" | "Panic"
    error,          \* Option: the error value returned with Err
    failedAt,       \* Option: the analysis lookup that failed
    documentation,  \* Option: the Documentation returned with Ok
    api_pc,         \* position of the client of the json::api types
    api_document,   \* the Document the client is building
    api_included,   \* the Documents the client has finished
    api_calls,      \* the relationship calls made on api_document while it is built
    api_documentation, \* Option: the Documentation the client has assembled
    json,           \* Option: its serde_json serialization
    parsed,         \* Option: the result of parsing json back
    dt_pc,          \* position of the caller of gather_tests
    dt_document,    \* the Document handed to gather_tests
    dt_blocks,      \* the snippets find_test_blocks extracted from its docs
    dt_tests,       \* the programs gather_tests returned
    run_pc,         \* position inside the test run
    run_docs,       \* the Documentation under test
    run_tests,      \* the result of find_tests: pairs of id and programs
    files,          \* the save directory: file name -> contents
    cargo,          \* Option: the outcome of the cargo build of compile_tests
    rustc,          \* Option: the compiler invocation: its arguments and output
    binary,         \* Option: the path compile_tests returned
    executed,       \* the binaries that were spawned and how each ended, in order
    run_outcome,    \* "running" | "Ok" | "Err" | "Panic"
    run_error,      \* Option: the error the run returned
    attr_markdown,  \* the doc comment handed to the attributes functions
    attr_summary,   \* Option: what summary returned for it
    attr_plain,     \* Option: what plain_summary returned for it
    tgt_targets,    \* metadata["packages"][0]["targets"] of the cargo metadata
    tgt_result,     \* Option: what target_from_metadata returned for it
    dd_frames,      \* the calls of recur: definition id -> frame
    dd_defs         \* Option: the Vec<Def> the outermost recur returned

buildVars == <<host, crate_name, pc, document, queue, included, outcome, error,
               failedAt, documentation>>
apiVars == <<api_pc, api_document, api_included, api_calls, api_documentation, json,
            parsed>>
doctestVars == <<dt_pc, dt_document, dt_blocks, dt_tests>>
runVars == <<run_pc, run_docs, run_tests, files, cargo, rustc, binary, executed,
             run_outcome, run_error>>
testVars == <<doctestVars, runVars>>
attributeVars == <<attr_markdown, attr_summary, attr_plain>>
targetVars == <<tgt_targets, tgt_result>>
docDataVars == <<dd_frames, dd_defs>>
libVars == <<attributeVars, targetVars, docDataVars>>
vars == <<buildVars, apiVars, testVars, libVars>>

(***************************************************************************)
(* Bounds of the model.                                                    *)
(***************************************************************************)
\* number of definitions below the root
MaxDefs == 2
\* number of relationship calls a client of the api makes
MaxCalls == 2
\* number of Documents a client puts in included
MaxIncluded == 1

(***************************************************************************)
(* Option<T> is a sequence of length at most one.                          *)
(***************************************************************************)
None == <<>>
Some(x) == <<x>>

(***************************************************************************)
(* Text is a sequence of one-character strings.                            *)
(***************************************************************************)
LF == "\n"
\* the backtick character, which delimits code spans
BACKTICK == "BACKTICK"

\* the index of the first occurrence of "\n\n" at or after i, 0 when none
RECURSIVE FindBlankLine(_, _)
FindBlankLine(markdown, i) ==
    IF i + 1 > Len(markdown) THEN 0
    ELSE IF markdown[i] = LF /\ markdown[i + 1] = LF THEN i
    ELSE FindBlankLine(markdown, i + 1)

\* a variant of summary that keeps the line break before the blank line
summary_ThroughLineBreak(markdown) ==
    LET index == FindBlankLine(markdown, 1)
    IN  IF index # 0 THEN SubSeq(markdown, 1, index) ELSE markdown

\* attributes::summary
summary(markdown) ==
    LET index == FindBlankLine(markdown, 1)
    IN  IF index # 0 THEN SubSeq(markdown, 1, index - 1) ELSE markdown

(***************************************************************************)
(* The pulldown_cmark event stream of a text, for the markup the model's   *)
(* texts use: paragraphs separated by blank lines, "# " headers, emphasis   *)
(* between stars and code spans between backticks, code blocks between     *)
(* fences of three backticks and code blocks indented by four spaces.  A   *)
(* header is one line; a fence, a header or a blank line (a line of        *)
(* nothing or of spaces) ends the paragraph before it.                     *)
(* mode is the open inline span: "" | "*" | BACKTICK.  A code block is     *)
(* opened by Start(CodeBlock(language)), the language being the text after *)
(* the opening fence (empty for an indented block), and holds one Text     *)
(* event per line, the line break included.                                *)
(***************************************************************************)
\* the index of the line break that ends the line of position i
RECURSIVE LineEnd(_, _)
LineEnd(markdown, i) ==
    IF i > Len(markdown) \/ markdown[i] = LF THEN i ELSE LineEnd(markdown, i + 1)

\* a fence of three backticks starts at position i
IsFence(markdown, i) ==
    /\ i + 2 <= Len(markdown)
    /\ markdown[i] = BACKTICK /\ markdown[i + 1] = BACKTICK /\ markdown[i + 2] = BACKTICK

\* the line at position i is indented by four spaces and is not blank
IsIndented(markdown, i) ==
    /\ i + 4 <= Len(markdown)
    /\ \A k \in i..(i + 3) : markdown[k] = " "
    /\ markdown[i + 4] # LF

\* the line at position i is ended by a line break and holds nothing or
\* spaces only
BlankLine(markdown, i) ==
    /\ i <= Len(markdown)
    /\ LineEnd(markdown, i) <= Len(markdown)
    /\ \A k \in i..(LineEnd(markdown, i) - 1) : markdown[k] = " "

\* a "# " header starts at position i
IsHeader(markdown, i) ==
    /\ i + 1 <= Len(markdown)
    /\ markdown[i] = "#" /\ markdown[i + 1] = " "

CodeBlock(language) == [tag |-> "CodeBlock", language |-> language]

RECURSIVE Inline(_, _, _, _)
RECURSIVE Blocks(_, _)
RECURSIVE FencedCode(_, _, _)
RECURSIVE IndentedCode(_, _)
\* the lines of a fenced code block from position i to its closing fence,
\* or to the end of the text when the fence is never closed
FencedCode(markdown, i, language) ==
    IF i > Len(markdown) THEN
        <<[ev |-> "End"] @@ CodeBlock(language)>>
    ELSE LET e == LineEnd(markdown, i) IN
         IF IsFence(markdown, i) /\ e = i + 3 THEN
             <<[ev |-> "End"] @@ CodeBlock(language)>> \o Blocks(markdown, e + 1)
         ELSE
             LET last == IF e > Len(markdown) THEN Len(markdown) ELSE e
             IN  <<[ev |-> "Text", text |-> SubSeq(markdown, i, last)]>>
                     \o FencedCode(markdown, e + 1, language)

\* the lines of an indented code block from position i on
IndentedCode(markdown, i) ==
    IF ~IsIndented(markdown, i) THEN
        <<[ev |-> "End"] @@ CodeBlock(<<>>)>> \o Blocks(markdown, i)
    ELSE LET e == LineEnd(markdown, i)
             last == IF e > Len(markdown) THEN Len(markdown) ELSE e
         IN  <<[ev |-> "Text", text |-> SubSeq(markdown, i + 4, last)]>>
                 \o IndentedCode(markdown, e + 1)

Inline(markdown, i, mode, block) ==
    IF i > Len(markdown) THEN
        <<[ev |-> "End", tag |-> block]>>
    ELSE IF markdown[i] = LF /\ BlankLine(markdown, i + 1) THEN
        <<[ev |-> "End", tag |-> block]>> \o Blocks(markdown, i + 1)
    ELSE IF markdown[i] = LF /\ (block = "Header" \/ IsFence(markdown, i + 1)
                                     \/ IsHeader(markdown, i + 1)) THEN
        <<[ev |-> "End", tag |-> block]>> \o Blocks(markdown, i + 1)
    ELSE IF markdown[i] = LF THEN
        <<[ev |-> "SoftBreak"]>> \o Inline(markdown, i + 1, mode, block)
    ELSE IF markdown[i] = BACKTICK THEN
        IF mode = BACKTICK
        THEN <<[ev |-> "End", tag |-> "Code"]>> \o Inline(markdown, i + 1, "", block)
        ELSE <<[ev |-> "Start", tag |-> "Code"]>> \o Inline(markdown, i + 1, BACKTICK, block)
    ELSE IF markdown[i] = "*" /\ mode # BACKTICK THEN
        IF mode = "*"
        THEN <<[ev |-> "End", tag |-> "Emphasis"]>> \o Inline(markdown, i + 1, "", block)
        ELSE <<[ev |-> "Start", tag |-> "Emphasis"]>> \o Inline(markdown, i + 1, "*", block)
    ELSE
        <<[ev |-> "Text", text |-> <<markdown[i]>>]>> \o Inline(markdown, i + 1, mode, block)

Blocks(markdown, i) ==
    IF i > Len(markdown) THEN <<>>
    ELSE IF BlankLine(markdown, i) THEN Blocks(markdown, LineEnd(markdown, i) + 1)
    ELSE IF IsFence(markdown, i) THEN
        LET e == LineEnd(markdown, i)
            language == SubSeq(markdown, i + 3, e - 1)
        IN  <<[ev |-> "Start"] @@ CodeBlock(language)>>
                \o FencedCode(markdown, e + 1, language)
    ELSE IF IsIndented(markdown, i) THEN
        <<[ev |-> "Start"] @@ CodeBlock(<<>>)>> \o IndentedCode(markdown, i)
    ELSE IF IsHeader(markdown, i) THEN
        <<[ev |-> "Start", tag |-> "Header"]>> \o Inline(markdown, i + 2, "", "Header")
    ELSE
        <<[ev |-> "Start", tag |-> "Paragraph"]>> \o Inline(markdown, i, "", "Paragraph")

\* pulldown_cmark::Parser::new(markdown), collected
Parser(markdown) == Blocks(markdown, 1)

\* the loop of attributes::plain_summary over the events from position i
RECURSIVE PlainSummaryLoop(_, _, _)
PlainSummaryLoop(events, i, acc) ==
    IF i > Len(events) THEN acc
    ELSE LET event == events[i] IN
         IF event.ev = "Text" THEN PlainSummaryLoop(events, i + 1, acc \o event.text)
         ELSE IF event.ev \in {"Start", "End"} /\ event.tag = "Code"
              THEN PlainSummaryLoop(events, i + 1, Append(acc, BACKTICK))
         ELSE IF event.ev = "End" /\ event.tag \in {"Paragraph", "Header"} THEN acc
         ELSE PlainSummaryLoop(events, i + 1, acc)

\* attributes::plain_summary
plain_summary(markdown) == PlainSummaryLoop(Parser(markdown), 1, <<>>)

(***************************************************************************)
(* src/src/json/api.rs: Data, VecOrData, Document, Documentation.          *)
(***************************************************************************)
\* Data::new().ty(t).id(id)
Data(t, id) == [ty |-> t, id |-> id]

\* VecOrData::Vec and VecOrData::Data
VecOf(data_vec) == [variant |-> "Vec", vec |-> data_vec]
DataOf(data) == [variant |-> "Data", data |-> data]

\* Document::new(): relationships is an Option of a map from relation names
\* to the one-entry map {"data": VecOrData}
\* HashMap::new(): a map is a function from its keys
EmptyMap == [k \in {} |-> None]

\* HashMap::insert
MapInsert(map, key, value) ==
    [k \in (DOMAIN map) \cup {key} |-> IF k = key THEN value ELSE map[k]]

Document_new == [ty |-> "", id |-> "", attributes |-> EmptyMap, relationships |-> None]

Document_ty(doc, t) == [doc EXCEPT !.ty = t]
Document_id(doc, id) == [doc EXCEPT !.id = id]
Document_attributes(doc, attribute, value) ==
    [doc EXCEPT !.attributes = MapInsert(doc.attributes, attribute, value)]

\* a variant of Document::relationships that keeps the entries a relation
\* already has and puts the new ones after them
Document_relationships_Extend(doc, ty, data) ==
    LET old == IF doc.relationships # None /\ ty \in DOMAIN doc.relationships[1]
                  /\ doc.relationships[1][ty].data.variant = "Vec"
               THEN doc.relationships[1][ty].data.vec ELSE <<>>
        data_map == [data |-> VecOf(old \o data)]
    IN  IF doc.relationships = None
        THEN [doc EXCEPT !.relationships = Some(MapInsert(EmptyMap, ty, data_map))]
        ELSE [doc EXCEPT !.relationships = Some(MapInsert(doc.relationships[1], ty, data_map))]

\* Document::relationships
Document_relationships(doc, ty, data) ==
    LET data_map == [data |-> VecOf(data)]
    IN  IF doc.relationships = None
        THEN [doc EXCEPT !.relationships = Some(MapInsert(EmptyMap, ty, data_map))]
        ELSE [doc EXCEPT !.relationships = Some(MapInsert(doc.relationships[1], ty, data_map))]

\* add_relationship that replaces the relation instead of appending to it
add_relationship_Overwrite(doc, ty, data) ==
    IF doc.relationships = None
    THEN [doc EXCEPT !.relationships =
              Some(MapInsert(EmptyMap, ty, [data |-> VecOf(<<data>>)]))]
    ELSE [doc EXCEPT !.relationships =
              Some(MapInsert(doc.relationships[1], ty, [data |-> VecOf(<<data>>)]))]

\* Document::add_relationship
add_relationship(doc, ty, data) ==
    IF doc.relationships = None
    THEN [doc EXCEPT !.relationships =
              Some(MapInsert(EmptyMap, ty, [data |-> VecOf(<<data>>)]))]
    ELSE LET relationships == doc.relationships[1]
             entry == IF ty \in DOMAIN relationships THEN relationships[ty]
                      ELSE [data |-> VecOf(<<>>)]
             pushed == IF entry.data.variant = "Vec"
                       THEN [data |-> VecOf(Append(entry.data.vec, data))]
                       ELSE entry
         IN  [doc EXCEPT !.relationships = Some(MapInsert(relationships, ty, pushed))]

\* Document::add_singular_relationship
add_singular_relationship(doc, ty, data) ==
    IF doc.relationships = None
    THEN [doc EXCEPT !.relationships =
              Some(MapInsert(EmptyMap, ty, [data |-> DataOf(data)]))]
    ELSE LET relationships == doc.relationships[1]
         IN  IF ty \in DOMAIN relationships THEN doc
             ELSE [doc EXCEPT !.relationships =
                       Some(MapInsert(relationships, ty, [data |-> DataOf(data)]))]

\* Documentation::new().data(d).included(i)
Documentation_new == [data |-> None, included |-> None]
Documentation_data(documentation_, data) == [documentation_ EXCEPT !.data = Some(data)]
Documentation_included(documentation_, included_) ==
    [documentation_ EXCEPT !.included = Some(included_)]

(***************************************************************************)
(* The analysis host (rls-analysis), as far as create_documentation reads  *)
(* it: def_roots, get_def and for_each_child_def.  Definition 0 is the     *)
(* crate root; definitions 1..MaxDefs lie below it.  host.kind gives each  *)
(* definition's DefKind, host.parents the definitions that enumerate it as *)
(* a child (one parent for a tree, several for shared definitions).        *)
(***************************************************************************)
RootId == 0
DefIds == 1..MaxDefs
RootName == "pkg"
CrateNames == {"pkg", "nope"}

\* analysis::DefKind
DefKinds == {"Enum", "Tuple", "Struct", "Union", "Trait", "Function", "Method",
             "Macro", "Mod", "Type", "Local", "Static", "Const", "Field"}

\* the doc comments found in the analysed crate
DocTexts == << <<"*", "a", "*", LF, LF, "b">>,
               <<"#", " ", "h", LF, LF, "c">>,
               <<"x", BACKTICK, "y", BACKTICK, LF, "z">>,
               <<>> >>

Hosts == [kind : [DefIds -> DefKinds],
          parents : {p \in [DefIds -> SUBSET (0..MaxDefs)] :
                        \A i \in DefIds : p[i] # {} /\ \A q \in p[i] : q < i}]

\* AnalysisHost::def_roots
def_roots == <<[id |-> RootId, name |-> RootName]>>

\* the fields of analysis::Def that get_def returns
get_def(id) ==
    IF id = RootId
    THEN [kind |-> "Mod", qualname |-> RootName, name |-> RootName,
          docs |-> DocTexts[1], parent |-> None]
    ELSE [kind |-> host.kind[id],
          qualname |-> RootName \o "::d" \o ToString(id),
          name |-> "d" \o ToString(id),
          docs |-> DocTexts[(id % Len(DocTexts)) + 1],
          parent |-> Some(CHOOSE q \in host.parents[id] :
                              \A r \in host.parents[id] : q <= r)]

\* the ids of a set in ascending order
RECURSIVE Ascending(_)
Ascending(S) ==
    IF S = {} THEN <<>>
    ELSE LET m == CHOOSE x \in S : \A y \in S : x <= y
         IN  <<m>> \o Ascending(S \ {m})

\* AnalysisHost::for_each_child_def(id, |id, _def| id)
for_each_child_def(id) == Ascending({c \in DOMAIN host.parents : id \in host.parents[c]})

(***************************************************************************)
(* create_documentation (src/src/json/mod.rs).                             *)
(***************************************************************************)
\* the match on def.kind of the top-level loop: Some(<<ty, child_ty>>) or
\* None for a kind the loop skips
TopLevelTypes(kind) ==
    CASE kind = "Mod" -> Some(<<"module", "modules">>)
      [] kind = "Struct" -> Some(<<"struct", "structs">>)
      [] kind = "Enum" -> Some(<<"enum", "enums">>)
      [] kind = "Trait" -> Some(<<"trait", "traits">>)
      [] kind = "Function" -> Some(<<"function", "functions">>)
      [] kind = "Type" -> Some(<<"type", "types">>)
      [] kind = "Static" -> Some(<<"static", "statics">>)
      [] kind = "Const" -> Some(<<"const", "consts">>)
      [] kind = "Field" -> Some(<<"field", "fields">>)
      [] kind = "Tuple" -> None
      [] kind = "Local" -> None
      [] OTHER -> None

\* the match on def.kind with the Field arm missing
DocumentType_NoField(kind) ==
    CASE kind = "Mod" -> Some("module")
      [] kind = "Struct" -> Some("struct")
      [] kind = "Enum" -> Some("enum")
      [] kind = "Trait" -> Some("trait")
      [] kind = "Function" -> Some("function")
      [] kind = "Type" -> Some("type")
      [] kind = "Static" -> Some("static")
      [] kind = "Const" -> Some("const")
      [] OTHER -> None

\* the match on def.kind that types an included Document
DocumentType(kind) ==
    CASE kind = "Mod" -> Some("module")
      [] kind = "Struct" -> Some("struct")
      [] kind = "Enum" -> Some("enum")
      [] kind = "Trait" -> Some("trait")
      [] kind = "Function" -> Some("function")
      [] kind = "Type" -> Some("type")
      [] kind = "Static" -> Some("static")
      [] kind = "Const" -> Some("const")
      [] kind = "Field" -> Some("field")
      [] kind = "Tuple" -> None
      [] kind = "Local" -> None
      [] OTHER -> None

\* the match on def.kind with "child_"-prefixed relation names
ChildTypes_Prefixed(kind) ==
    CASE kind = "Mod" -> Some(<<"module", "child_modules">>)
      [] kind = "Struct" -> Some(<<"struct", "child_structs">>)
      [] kind = "Enum" -> Some(<<"enum", "child_enums">>)
      [] kind = "Trait" -> Some(<<"trait", "child_traits">>)
      [] kind = "Function" -> Some(<<"function", "child_functions">>)
      [] kind = "Type" -> Some(<<"type", "child_types">>)
      [] kind = "Static" -> Some(<<"static", "child_statics">>)
      [] kind = "Const" -> Some(<<"const", "child_consts">>)
      [] kind = "Field" -> Some(<<"field", "child_fields">>)
      [] OTHER -> None

\* the match on def.kind of the loop over a definition's children
ChildTypes(kind) ==
    CASE kind = "Mod" -> Some(<<"module", "modules">>)
      [] kind = "Struct" -> Some(<<"struct", "structs">>)
      [] kind = "Enum" -> Some(<<"enum", "enums">>)
      [] kind = "Trait" -> Some(<<"trait", "traits">>)
      [] kind = "Function" -> Some(<<"function", "functions">>)
      [] kind = "Type" -> Some(<<"type", "types">>)
      [] kind = "Static" -> Some(<<"static", "statics">>)
      [] kind = "Const" -> Some(<<"const", "consts">>)
      [] kind = "Field" -> Some(<<"field", "fields">>)
      [] kind = "Tuple" -> None
      [] kind = "Local" -> None
      [] OTHER -> None

\* a find that takes the first root whatever its name
FindRoot_First(roots, name, i) ==
    IF i > Len(roots) THEN None ELSE Some(roots[i].id)

\* roots.iter().find(|&&(_, ref name)| name == crate_name)
RECURSIVE FindRoot(_, _, _)
FindRoot(roots, name, i) ==
    IF i > Len(roots) THEN None
    ELSE IF roots[i].name = name THEN Some(roots[i].id)
    ELSE FindRoot(roots, name, i + 1)

\* the main Document of the crate
RootDocument(name, root_def) ==
    Document_attributes(
        Document_attributes(
            Document_id(Document_ty(Document_new, "crate"), name),
            "summary", plain_summary(root_def.docs)),
        "docs", root_def.docs)

\* the relationships the top-level loop adds to the crate's Document
RECURSIVE TopLevelRelationships(_, _)
TopLevelRelationships(doc, ids) ==
    IF ids = <<>> THEN doc
    ELSE LET def == get_def(Head(ids))
             types == TopLevelTypes(def.kind)
         IN  IF types = None THEN TopLevelRelationships(doc, Tail(ids))
             ELSE TopLevelRelationships(
                      add_relationship(doc, types[1][2], Data(types[1][1], def.qualname)),
                      Tail(ids))

\* the relationships the loop over child_ids adds to a definition's Document
RECURSIVE ChildRelationships(_, _)
ChildRelationships(doc, child_ids) ==
    IF child_ids = <<>> THEN doc
    ELSE LET def == get_def(Head(child_ids))
             types == ChildTypes(def.kind)
         IN  IF types = None THEN ChildRelationships(doc, Tail(child_ids))
             ELSE ChildRelationships(
                      add_relationship(doc, types[1][2], Data(types[1][1], def.qualname)),
                      Tail(child_ids))

\* the attributes of an included Document
IncludedDocument(ty, def) ==
    Document_attributes(
        Document_attributes(
            Document_attributes(
                Document_attributes(
                    Document_id(Document_ty(Document_new, ty), def.qualname),
                    "name", def.name),
                "summary", summary(def.docs)),
            "plainSummary", plain_summary(def.docs)),
        "docs", def.docs)

\* the "parent" relationship without the comparison with the root
ParentRelationship_NoRootCheck(doc, def, root_def) ==
    IF def.kind = "Mod" /\ def.parent # None
    THEN add_singular_relationship(doc, "parent",
                                   Data("module", get_def(def.parent[1]).qualname))
    ELSE doc

\* the "parent" relationship of a module below another definition
ParentRelationship(doc, def, root_def) ==
    IF def.kind = "Mod" /\ def.parent # None
    THEN LET parent_def == get_def(def.parent[1])
         IN  IF parent_def.qualname # root_def.qualname
             THEN add_singular_relationship(doc, "parent",
                                            Data("module", parent_def.qualname))
             ELSE doc
    ELSE doc

\* the value a failed analysis lookup yields
AnalysisErr == [kind |-> "AnalysisErr"]

\* error::CrateErr { crate_name }
CrateErr(name) == [kind |-> "CrateErr", crate_name |-> name]

\* `?` on a failed lookup: create_documentation returns Err(err)
ReturnErr(err, at) ==
    /\ outcome' = "Err"
    /\ error' = Some(err)
    /\ failedAt' = at
    /\ pc' = "done"
    /\ UNCHANGED <<host, crate_name, document, queue, included, documentation>>
    /\ UNCHANGED <<apiVars, testVars, libVars>>

\* `.unwrap()` on a failed lookup: the thread panics, nothing is returned
Unwind(at) ==
    /\ outcome' = "Panic"
    /\ failedAt' = at
    /\ pc' = "done"
    /\ UNCHANGED <<host, crate_name, document, queue, included, error, documentation>>
    /\ UNCHANGED <<apiVars, testVars, libVars>>

\* no client of the api types is running
ApiIdle ==
    /\ api_pc = <<"idle", 0>>
    /\ api_document = Document_new
    /\ api_included = <<>>
    /\ api_calls = <<>>
    /\ api_documentation = None
    /\ json = None
    /\ parsed = None

\* no test run is under way
TestIdle ==
    /\ dt_pc = "idle"
    /\ dt_document = Document_new
    /\ dt_blocks = <<>>
    /\ dt_tests = <<>>
    /\ run_pc = "idle"
    /\ run_docs = Documentation_new
    /\ run_tests = <<>>
    /\ files = EmptyMap
    /\ cargo = None
    /\ rustc = None
    /\ binary = None
    /\ executed = <<>>
    /\ run_outcome = "running"
    /\ run_error = None

\* no attribute is being computed
AttributesIdle ==
    /\ attr_markdown = <<>>
    /\ attr_summary = None
    /\ attr_plain = None

\* no target is being chosen
TargetIdle ==
    /\ tgt_targets = <<>>
    /\ tgt_result = None

\* no DocData is being built
DocDataIdle ==
    /\ dd_frames = EmptyMap
    /\ dd_defs = None

LibIdle == AttributesIdle /\ TargetIdle /\ DocDataIdle

Init ==
    /\ host \in Hosts
    /\ crate_name \in CrateNames
    /\ pc = "start"
    /\ document = Document_new
    /\ queue = <<>>
    /\ included = <<>>
    /\ outcome = "running"
    /\ error = None
    /\ failedAt = None
    /\ documentation = None
    /\ ApiIdle
    /\ TestIdle
    /\ LibIdle

\* host.def_roots()? fails
DefRootsFails ==
    /\ pc = "start"
    /\ ReturnErr(AnalysisErr, Some("def_roots"))

\* no root carries crate_name
CrateNotFound ==
    /\ pc = "start"
    /\ FindRoot(def_roots, crate_name, 1) = None
    /\ ReturnErr(CrateErr(crate_name), None)

\* host.get_def(root_id)? fails
RootDefFails ==
    /\ pc = "start"
    /\ FindRoot(def_roots, crate_name, 1) # None
    /\ ReturnErr(AnalysisErr, Some("get_def(root)"))

\* host.for_each_child_def(root_id, ..).unwrap() fails
RootChildrenFail ==
    /\ pc = "start"
    /\ FindRoot(def_roots, crate_name, 1) # None
    /\ Unwind(Some("for_each_child_def(root)"))

\* host.get_def(id).unwrap() fails for a top-level id
TopLevelDefFails ==
    /\ pc = "start"
    /\ FindRoot(def_roots, crate_name, 1) # None
    /\ for_each_child_def(FindRoot(def_roots, crate_name, 1)[1]) # <<>>
    /\ Unwind(Some("get_def(top-level)"))

\* the root is found and every lookup succeeds: the crate's Document, its
\* relationships and the initial work queue
Start ==
    /\ pc = "start"
    /\ FindRoot(def_roots, crate_name, 1) # None
    /\ LET root_id == FindRoot(def_roots, crate_name, 1)[1]
           root_def == get_def(root_id)
           ids == for_each_child_def(root_id)
       IN  /\ document' = TopLevelRelationships(RootDocument(crate_name, root_def), ids)
           /\ queue' = ids
    /\ included' = <<>>
    /\ pc' = "loop"
    /\ UNCHANGED <<host, crate_name, outcome, error, failedAt, documentation>>
    /\ UNCHANGED <<apiVars, testVars, libVars>>

\* host.for_each_child_def(id, ..)? fails for the id popped from the queue
ChildrenFail ==
    /\ pc = "loop"
    /\ queue # <<>>
    /\ ReturnErr(AnalysisErr, Some("for_each_child_def"))

\* host.get_def(id).unwrap() fails for the id popped from the queue
DefFails ==
    /\ pc = "loop"
    /\ queue # <<>>
    /\ Unwind(Some("get_def"))

\* the popped definition has no display type: `continue`, its children
\* stay queued
SkipDef ==
    /\ pc = "loop"
    /\ queue # <<>>
    /\ LET id == Head(queue)
           child_ids == for_each_child_def(id)
       IN  /\ DocumentType(get_def(id).kind) = None
           /\ queue' = Tail(queue) \o child_ids
    /\ UNCHANGED <<host, crate_name, pc, document, included, outcome, error,
                   failedAt, documentation>>
    /\ UNCHANGED <<apiVars, testVars, libVars>>

\* host.get_def(parent_id).unwrap() fails for the parent of a module
ParentDefFails ==
    /\ pc = "loop"
    /\ queue # <<>>
    /\ LET def == get_def(Head(queue))
       IN  /\ DocumentType(def.kind) # None
           /\ def.kind = "Mod"
           /\ def.parent # None
    /\ Unwind(Some("get_def(parent)"))

\* host.get_def(id).unwrap() fails for a child of the popped definition
ChildDefFails ==
    /\ pc = "loop"
    /\ queue # <<>>
    /\ DocumentType(get_def(Head(queue)).kind) # None
    /\ for_each_child_def(Head(queue)) # <<>>
    /\ Unwind(Some("get_def(child)"))

\* one iteration of the work loop that pushes a Document
ProcessDef ==
    /\ pc = "loop"
    /\ queue # <<>>
    /\ LET id == Head(queue)
           child_ids == for_each_child_def(id)
           def == get_def(id)
           ty == DocumentType(def.kind)
       IN  /\ ty # None
           /\ queue' = Tail(queue) \o child_ids
           /\ included' = Append(included,
                  ChildRelationships(
                      ParentRelationship(IncludedDocument(ty[1], def), def,
                                         get_def(RootId)),
                      child_ids))
    /\ UNCHANGED <<host, crate_name, pc, document, outcome, error, failedAt,
                   documentation>>
    /\ UNCHANGED <<apiVars, testVars, libVars>>

\* the queue is empty: Ok(Documentation::new().data(document).included(included))
Finish ==
    /\ pc = "loop"
    /\ queue = <<>>
    /\ documentation' = Some(Documentation_included(
                                 Documentation_data(Documentation_new, document),
                                 included))
    /\ outcome' = "Ok"
    /\ pc' = "done"
    /\ UNCHANGED <<host, crate_name, document, queue, included, error, failedAt>>
    /\ UNCHANGED <<apiVars, testVars, libVars>>

Next ==
    \/ DefRootsFails
    \/ CrateNotFound
    \/ RootDefFails
    \/ RootChildrenFail
    \/ TopLevelDefFails
    \/ Start
    \/ ChildrenFail
    \/ DefFails
    \/ SkipDef
    \/ ParentDefFails
    \/ ChildDefFails
    \/ ProcessDef
    \/ Finish

Spec == Init /\ [][Next]_vars

(***************************************************************************)
(* What the claims speak about, stated independently of the builder.       *)
(***************************************************************************)
\* the kinds that have a display type
RetainedKinds == {"Mod", "Struct", "Enum", "Trait", "Function", "Type", "Static",
                  "Const", "Field"}

DisplayTypeOf == [k \in RetainedKinds |->
    CASE k = "Mod" -> "module" [] k = "Struct" -> "struct" [] k = "Enum" -> "enum"
      [] k = "Trait" -> "trait" [] k = "Function" -> "function" [] k = "Type" -> "type"
      [] k = "Static" -> "static" [] k = "Const" -> "const" [] k = "Field" -> "field"]

PluralOf == [k \in RetainedKinds |->
    CASE k = "Mod" -> "modules" [] k = "Struct" -> "structs" [] k = "Enum" -> "enums"
      [] k = "Trait" -> "traits" [] k = "Function" -> "functions" [] k = "Type" -> "types"
      [] k = "Static" -> "statics" [] k = "Const" -> "consts" [] k = "Field" -> "fields"]

\* every definition is enumerated by exactly one parent
IsTree == \A d \in DefIds : Cardinality(host.parents[d]) = 1

Retained(d) == host.kind[d] \in RetainedKinds

QualNameOf(d) == IF d = RootId THEN "pkg" ELSE "pkg::d" \o ToString(d)

\* create_documentation has returned Ok(documentation)
Returned == outcome = "Ok" /\ documentation # None

TheData == documentation[1].data[1]
TheIncluded == documentation[1].included[1]

\* the positions of included that hold a Document with the given id
Positions(id) == {i \in DOMAIN TheIncluded : TheIncluded[i].id = id}

\* every Document of the output that stands for definition p
DocumentsOf(p) ==
    IF p = RootId THEN {TheData}
    ELSE {TheIncluded[i] : i \in Positions(QualNameOf(p))}

RelationKeys(doc) ==
    IF doc.relationships = None THEN {} ELSE DOMAIN doc.relationships[1]

\* the VecOrData of a relation the Document has
Relation(doc, key) == doc.relationships[1][key].data

\* how often a Data entry occurs in the plural relation key of doc
Occurrences(doc, key, entry) ==
    IF key \notin RelationKeys(doc) \/ Relation(doc, key).variant # "Vec" THEN 0
    ELSE Cardinality({i \in DOMAIN Relation(doc, key).vec :
                         Relation(doc, key).vec[i] = entry})

\* every Data entry of every relation of doc
AllData(doc) ==
    UNION {IF Relation(doc, key).variant = "Vec"
           THEN {Relation(doc, key).vec[i] : i \in DOMAIN Relation(doc, key).vec}
           ELSE {Relation(doc, key).data} : key \in RelationKeys(doc)}

AllDocuments == {TheData} \cup {TheIncluded[i] : i \in DOMAIN TheIncluded}

(***************************************************************************)
(* C1: for a definition tree, create_documentation returns exactly one     *)
(* root Document of type "crate" and, in included, exactly one Document    *)
(* for each definition of a retained kind below the root; no id occurs     *)
(* twice in included and the root is not repeated there.                   *)
(***************************************************************************)
C1_OneDocumentPerRetainedDefinition ==
    (Returned /\ IsTree) =>
        /\ documentation[1].data # None
        /\ TheData.ty = "crate"
        /\ TheData.id = crate_name
        /\ \A d \in DefIds : Retained(d) =>
               /\ Cardinality(Positions(QualNameOf(d))) = 1
               /\ \A i \in Positions(QualNameOf(d)) :
                      TheIncluded[i].ty = DisplayTypeOf[host.kind[d]]
        /\ Len(TheIncluded) = Cardinality({d \in DefIds : Retained(d)})
        /\ \A i, j \in DOMAIN TheIncluded :
               i # j => TheIncluded[i].id # TheIncluded[j].id
        /\ \A i \in DOMAIN TheIncluded :
               TheIncluded[i].ty # "crate" /\ TheIncluded[i].id # TheData.id

\* a tree with a retained definition below a retained definition was built
C1_Witness ==
    /\ Returned
    /\ IsTree
    /\ host.parents[2] = {1}
    /\ Retained(1) /\ Retained(2)
    /\ Len(TheIncluded) = 2

(***************************************************************************)
(* C2: a definition of kind tuple or local, or of any other kind without   *)
(* a display type (union, macro, method), yields no Document in included   *)
(* and no Data entry in any relationship of any Document.  (Refuted: the   *)
(* "parent" relationship of a module names its parent whatever its kind.)  *)
(***************************************************************************)
C2_DroppedKindsLeaveNoTrace ==
    Returned =>
        \A d \in DefIds : ~Retained(d) =>
            /\ Positions(QualNameOf(d)) = {}
            /\ \A doc \in AllDocuments :
                   \A entry \in AllData(doc) : entry.id # QualNameOf(d)

(***************************************************************************)
(* C3: for every retained definition D enumerated by a parent P that is    *)
(* the root or retained, every Document of P has the plural relation keyed *)
(* by the unprefixed plural of D's display type, and it holds the entry    *)
(* {type: display type of D, id: qualified name of D} exactly once.        *)
(***************************************************************************)
C3_ChildListedOnceUnderPlural ==
    Returned =>
        \A d \in DefIds : \A p \in host.parents[d] :
            (Retained(d) /\ (p = RootId \/ Retained(p))) =>
                \A doc \in DocumentsOf(p) :
                    /\ PluralOf[host.kind[d]] \in RelationKeys(doc)
                    /\ Relation(doc, PluralOf[host.kind[d]]).variant = "Vec"
                    /\ Occurrences(doc, PluralOf[host.kind[d]],
                                   [ty |-> DisplayTypeOf[host.kind[d]],
                                    id |-> QualNameOf(d)]) = 1

\* a struct below the root with a field below it was built
C3_Witness ==
    /\ Returned
    /\ host.kind[1] = "Struct" /\ host.kind[2] = "Field"
    /\ host.parents[2] = {1}
    /\ Len(TheIncluded) = 2
    /\ "structs" \in RelationKeys(TheData)
    /\ "fields" \in RelationKeys(TheIncluded[1])

(***************************************************************************)
(* C4: an included Document carries a "parent" relationship if and only if *)
(* it is a module whose definition has a parent whose qualified name       *)
(* differs from the root's; the relationship is singular and equals        *)
(* {type: "module", id: the parent's qualified name}.                      *)
(***************************************************************************)
C4_ParentOnlyOnNestedModules ==
    Returned =>
        \A d \in DefIds : \A doc \in DocumentsOf(d) :
            LET parent == get_def(d).parent
                nested == /\ host.kind[d] = "Mod"
                          /\ parent # None
                          /\ QualNameOf(parent[1]) # QualNameOf(RootId)
            IN  /\ ("parent" \in RelationKeys(doc)) <=> nested
                /\ nested =>
                       /\ Relation(doc, "parent").variant = "Data"
                       /\ Relation(doc, "parent").data =
                              [ty |-> "module", id |-> QualNameOf(parent[1])]

\* a module below a top-level module was built, both in included
C4_Witness ==
    /\ Returned
    /\ host.kind[1] = "Mod" /\ host.kind[2] = "Mod"
    /\ host.parents[2] = {1}
    /\ Len(TheIncluded) = 2
    /\ "parent" \notin RelationKeys(TheIncluded[1])
    /\ "parent" \in RelationKeys(TheIncluded[2])

(***************************************************************************)
(* C5 as claimed: a retained child of a parent that is not the root is     *)
(* recorded on the parent's Document under the "child_"-prefixed plural.   *)
(***************************************************************************)
C5_ChildPrefixedKeys ==
    Returned =>
        \A d \in DefIds : \A p \in host.parents[d] :
            (Retained(d) /\ p # RootId /\ Retained(p)) =>
                \A doc \in DocumentsOf(p) :
                    ("child_" \o PluralOf[host.kind[d]]) \in RelationKeys(doc)

(***************************************************************************)
(* C5 as amended: the relationships of every Document, the root's and      *)
(* those of included Documents alike, are keyed by the unprefixed plurals  *)
(* (and "parent"); a parent that is not the root lists its retained child  *)
(* under the unprefixed plural and has no "child_"-prefixed key.           *)
(***************************************************************************)
C5_UnprefixedKeysEverywhere ==
    Returned =>
        /\ RelationKeys(TheData) \subseteq {PluralOf[k] : k \in RetainedKinds}
        /\ \A i \in DOMAIN TheIncluded :
               RelationKeys(TheIncluded[i]) \subseteq
                   {PluralOf[k] : k \in RetainedKinds} \cup {"parent"}
        /\ \A d \in DefIds : \A p \in host.parents[d] :
               (Retained(d) /\ p # RootId /\ Retained(p)) =>
                   \A doc \in DocumentsOf(p) :
                       /\ PluralOf[host.kind[d]] \in RelationKeys(doc)
                       /\ ("child_" \o PluralOf[host.kind[d]]) \notin RelationKeys(doc)

\* an enum below a top-level module: the module lists it under "enums"
C5_Witness ==
    /\ Returned
    /\ host.kind[1] = "Mod" /\ host.kind[2] = "Enum"
    /\ host.parents[2] = {1}
    /\ Len(TheIncluded) = 2
    /\ RelationKeys(TheIncluded[1]) = {"enums"}
    /\ RelationKeys(TheData) = {"modules"}

(***************************************************************************)
(* C6: if no analysis root carries the requested crate name,               *)
(* create_documentation returns the CrateErr error carrying exactly the    *)
(* requested name, no Documentation, and has enumerated no children        *)
(* (no id queued, no relationship recorded, no Document built).            *)
(***************************************************************************)
C6_CrateNotFound ==
    (/\ pc = "done"
     /\ failedAt = None
     /\ \A i \in DOMAIN def_roots : def_roots[i].name # crate_name) =>
        /\ outcome = "Err"
        /\ error = <<[kind |-> "CrateErr", crate_name |-> crate_name]>>
        /\ documentation = None
        /\ queue = <<>>
        /\ included = <<>>
        /\ document = Document_new

\* create_documentation was called with a name no root has and has returned
C6_Witness ==
    /\ pc = "done"
    /\ crate_name = "nope"
    /\ failedAt = None
    /\ outcome = "Err"

(***************************************************************************)
(* C7 as claimed: when get_def or for_each_child_def fails for any id at   *)
(* any step, create_documentation returns an error value (it does not      *)
(* panic) and returns no Documentation.  (Refuted: five of the lookups are *)
(* unwrapped.)                                                             *)
(***************************************************************************)
C7_LookupFailureReturnsErr ==
    failedAt # None => (outcome = "Err" /\ error # None /\ documentation = None)

(***************************************************************************)
(* C8 as claimed: when the analysis source enumerates a definition id more *)
(* than once during a traversal, create_documentation fails with an error  *)
(* and returns no included list holding two Documents for that id.         *)
(* (Refuted: the id is processed once per enumeration.)                    *)
(***************************************************************************)
C8_DuplicateIdFails ==
    (pc = "done" /\ failedAt = None /\ crate_name = RootName /\ ~IsTree) =>
        /\ outcome = "Err"
        /\ documentation = None

(***************************************************************************)
(* C9 as claimed: every Document of the output, the root included, has     *)
(* docs = the doc text, summary = summary(docs) and plainSummary =         *)
(* plain_summary(docs); each included Document also has name = the short   *)
(* name.  (Refuted at the root, whose "summary" is plain_summary(docs) and *)
(* which has no "plainSummary".)                                           *)
(***************************************************************************)
HasSummaries(doc, docs) ==
    /\ {"docs", "summary", "plainSummary"} \subseteq DOMAIN doc.attributes
    /\ doc.attributes["docs"] = docs
    /\ doc.attributes["summary"] = summary(docs)
    /\ doc.attributes["plainSummary"] = plain_summary(docs)

C9_AttributesOfEveryDocument ==
    Returned =>
        /\ HasSummaries(TheData, get_def(RootId).docs)
        /\ \A d \in DefIds : \A doc \in DocumentsOf(d) :
               /\ HasSummaries(doc, get_def(d).docs)
               /\ "name" \in DOMAIN doc.attributes
               /\ doc.attributes["name"] = get_def(d).name

\* the included Documents alone do carry the attributes C9 names
C9_IncludedAttributes ==
    Returned =>
        \A d \in DefIds : \A doc \in DocumentsOf(d) :
            /\ HasSummaries(doc, get_def(d).docs)
            /\ DOMAIN doc.attributes = {"name", "docs", "summary", "plainSummary"}
            /\ doc.attributes["name"] = get_def(d).name

(***************************************************************************)
(* serde_json values, and the Serialize / Deserialize implementations      *)
(* that src/src/json/api.rs derives for its types.                         *)
(***************************************************************************)
JNull == [j |-> "null"]
JString(str) == [j |-> "string", s |-> str]
JArray(items) == [j |-> "array", items |-> items]
JObject(fields) == [j |-> "object", fields |-> fields]

\* Data: the fields ty (renamed "type") and id
SerializeData(data) ==
    JObject([k \in {"type", "id"} |->
                IF k = "type" THEN JString(data.ty) ELSE JString(data.id)])

\* an untagged enum serializes as the content of its variant
SerializeVecOrData_AlwaysArray(v) ==
    IF v.variant = "Vec"
    THEN JArray([i \in DOMAIN v.vec |-> SerializeData(v.vec[i])])
    ELSE JArray(<<SerializeData(v.data)>>)

SerializeVecOrData(v) ==
    IF v.variant = "Vec"
    THEN JArray([i \in DOMAIN v.vec |-> SerializeData(v.vec[i])])
    ELSE SerializeData(v.data)

\* HashMap<String, HashMap<String, VecOrData>>
SerializeRelationships(relationships) ==
    JObject([ty \in DOMAIN relationships |->
                JObject([k \in DOMAIN relationships[ty] |->
                            SerializeVecOrData(relationships[ty][k])])])

\* Document: relationships is skipped when it is None
SerializeDocument(doc) ==
    LET base == [k \in {"type", "id", "attributes"} |->
                    CASE k = "type" -> JString(doc.ty)
                      [] k = "id" -> JString(doc.id)
                      [] k = "attributes" ->
                             JObject([a \in DOMAIN doc.attributes |->
                                         JString(doc.attributes[a])])]
    IN  JObject(IF doc.relationships = None THEN base
                ELSE MapInsert(base, "relationships",
                               SerializeRelationships(doc.relationships[1])))

\* Documentation: both fields are Options, None is null
SerializeDocumentation(d) ==
    JObject([k \in {"data", "included"} |->
                IF k = "data"
                THEN IF d.data = None THEN JNull ELSE SerializeDocument(d.data[1])
                ELSE IF d.included = None THEN JNull
                     ELSE JArray([i \in DOMAIN d.included[1] |->
                                     SerializeDocument(d.included[1][i])])])

IsJString(v) == v.j = "string"

HasStrings(v, keys) ==
    /\ v.j = "object"
    /\ keys \subseteq DOMAIN v.fields
    /\ \A k \in keys : IsJString(v.fields[k])

\* a derived struct is read from a map of its fields or from a sequence of
\* them; None is a deserialization error
DeserializeData(v) ==
    IF HasStrings(v, {"type", "id"})
    THEN Some(Data(v.fields["type"].s, v.fields["id"].s))
    ELSE IF v.j = "array" /\ Len(v.items) = 2 /\ \A i \in 1..2 : IsJString(v.items[i])
    THEN Some(Data(v.items[1].s, v.items[2].s))
    ELSE None

\* an untagged enum takes the first variant that deserializes: Vec, then Data
DeserializeVecOrData(v) ==
    IF v.j = "array" /\ \A i \in DOMAIN v.items : DeserializeData(v.items[i]) # None
    THEN Some(VecOf([i \in DOMAIN v.items |-> DeserializeData(v.items[i])[1]]))
    ELSE IF DeserializeData(v) # None
    THEN Some(DataOf(DeserializeData(v)[1]))
    ELSE None

DeserializeRelationships(v) ==
    IF /\ v.j = "object"
       /\ \A ty \in DOMAIN v.fields :
              /\ v.fields[ty].j = "object"
              /\ \A k \in DOMAIN v.fields[ty].fields :
                     DeserializeVecOrData(v.fields[ty].fields[k]) # None
    THEN Some([ty \in DOMAIN v.fields |->
                  [k \in DOMAIN v.fields[ty].fields |->
                      DeserializeVecOrData(v.fields[ty].fields[k])[1]]])
    ELSE None

\* a missing or null Option field is None
Absent(v, key) == key \notin DOMAIN v.fields \/ v.fields[key].j = "null"

DeserializeDocument(v) ==
    IF /\ HasStrings(v, {"type", "id"})
       /\ "attributes" \in DOMAIN v.fields
       /\ v.fields["attributes"].j = "object"
       /\ \A a \in DOMAIN v.fields["attributes"].fields :
              IsJString(v.fields["attributes"].fields[a])
       /\ (Absent(v, "relationships")
              \/ DeserializeRelationships(v.fields["relationships"]) # None)
    THEN Some([ty |-> v.fields["type"].s,
               id |-> v.fields["id"].s,
               attributes |-> [a \in DOMAIN v.fields["attributes"].fields |->
                                  v.fields["attributes"].fields[a].s],
               relationships |->
                   IF Absent(v, "relationships") THEN None
                   ELSE DeserializeRelationships(v.fields["relationships"])])
    ELSE None

DeserializeDocumentation(v) ==
    IF /\ v.j = "object"
       /\ (Absent(v, "data") \/ DeserializeDocument(v.fields["data"]) # None)
       /\ \/ Absent(v, "included")
          \/ /\ v.fields["included"].j = "array"
             /\ \A i \in DOMAIN v.fields["included"].items :
                    DeserializeDocument(v.fields["included"].items[i]) # None
    THEN Some([data |-> IF Absent(v, "data") THEN None
                        ELSE DeserializeDocument(v.fields["data"]),
               included |->
                   IF Absent(v, "included") THEN None
                   ELSE Some([i \in DOMAIN v.fields["included"].items |->
                                 DeserializeDocument(v.fields["included"].items[i])[1]])])
    ELSE None

(***************************************************************************)
(* A client of the api: it builds Documents with relationships,            *)
(* add_relationship and add_singular_relationship, assembles a             *)
(* Documentation, serializes it and parses the JSON back.                  *)
(***************************************************************************)
ApiKeys == {"modules", "structs", "parent"}
ApiData == {Data("module", "pkg::m"), Data("struct", "pkg::S")}
ApiVecs == {<<>>, <<Data("module", "pkg::m")>>,
            <<Data("module", "pkg::m"), Data("struct", "pkg::S")>>}
ApiDocuments == {<<"module", "pkg::m">>, <<"struct", "pkg::S">>}

\* the relationship calls made on all Documents so far
Calls == api_pc[2]

NewDocument(ty, id, docs) ==
    Document_attributes(Document_id(Document_ty(Document_new, ty), id), "docs", docs)

InitApi ==
    /\ host = [kind |-> [d \in DefIds |-> "Mod"], parents |-> [d \in DefIds |-> {RootId}]]
    /\ crate_name = RootName
    /\ pc = "idle"
    /\ document = Document_new
    /\ queue = <<>>
    /\ included = <<>>
    /\ outcome = "running"
    /\ error = None
    /\ failedAt = None
    /\ documentation = None
    /\ api_pc = <<"build", 0>>
    /\ api_document = NewDocument("crate", RootName, "crate docs")
    /\ api_included = <<>>
    /\ api_calls = <<>>
    /\ api_documentation = None
    /\ json = None
    /\ parsed = None
    /\ TestIdle
    /\ LibIdle

\* document.relationships(ty, data)
ApiRelationships ==
    /\ api_pc[1] = "build" /\ Calls < MaxCalls
    /\ \E ty \in ApiKeys, data \in ApiVecs :
           /\ api_document' = Document_relationships(api_document, ty, data)
           /\ api_calls' = Append(api_calls, [op |-> "relationships", ty |-> ty,
                                              data |-> data])
    /\ api_pc' = <<"build", Calls + 1>>
    /\ UNCHANGED <<testVars, libVars, buildVars, api_included, api_documentation, json, parsed>>

\* document.add_relationship(ty, data)
ApiAddRelationship ==
    /\ api_pc[1] = "build" /\ Calls < MaxCalls
    /\ \E ty \in ApiKeys, data \in ApiData :
           /\ api_document' = add_relationship(api_document, ty, data)
           /\ api_calls' = Append(api_calls, [op |-> "add_relationship", ty |-> ty,
                                              data |-> data])
    /\ api_pc' = <<"build", Calls + 1>>
    /\ UNCHANGED <<testVars, libVars, buildVars, api_included, api_documentation, json, parsed>>

\* document.add_singular_relationship(ty, data)
ApiAddSingularRelationship ==
    /\ api_pc[1] = "build" /\ Calls < MaxCalls
    /\ \E ty \in ApiKeys, data \in ApiData :
           /\ api_document' = add_singular_relationship(api_document, ty, data)
           /\ api_calls' = Append(api_calls, [op |-> "add_singular_relationship",
                                              ty |-> ty, data |-> data])
    /\ api_pc' = <<"build", Calls + 1>>
    /\ UNCHANGED <<testVars, libVars, buildVars, api_included, api_documentation, json, parsed>>

\* the Document is finished and kept for included; the next one is begun
ApiNextDocument ==
    /\ api_pc[1] = "build" /\ Len(api_included) < MaxIncluded
    /\ api_included' = Append(api_included, api_document)
    /\ \E d \in ApiDocuments : api_document' = NewDocument(d[1], d[2], "docs")
    /\ api_calls' = <<>>
    /\ UNCHANGED <<testVars, libVars, buildVars, api_pc, api_documentation, json, parsed>>

\* Documentation::new() with .data(..) and .included(..) as the client
\* chooses, then serde_json::to_value; the first Document built is the data,
\* the Documents built after it are the included list
ApiSerialize ==
    /\ api_pc[1] = "build"
    /\ \E with_data, with_included \in BOOLEAN :
           LET d0 == Documentation_new
               d1 == IF with_data
                     THEN Documentation_data(d0,
                              IF api_included = <<>> THEN api_document
                              ELSE api_included[1])
                     ELSE d0
               d2 == IF with_included
                     THEN Documentation_included(d1,
                              IF api_included = <<>> THEN <<>>
                              ELSE Append(Tail(api_included), api_document))
                     ELSE d1
           IN  /\ api_documentation' = Some(d2)
               /\ json' = Some(SerializeDocumentation(d2))
    /\ api_pc' = <<"serialized", Calls>>
    /\ api_calls' = <<>>
    /\ UNCHANGED <<testVars, libVars, buildVars, api_document, api_included, parsed>>

\* serde_json::from_value::<Documentation>
ApiParse ==
    /\ api_pc[1] = "serialized"
    /\ parsed' = DeserializeDocumentation(json[1])
    /\ api_pc' = <<"parsed", Calls>>
    /\ UNCHANGED <<testVars, libVars, buildVars, api_document, api_included, api_calls,
                   api_documentation, json>>

NextApi ==
    \/ ApiRelationships
    \/ ApiAddRelationship
    \/ ApiAddSingularRelationship
    \/ ApiNextDocument
    \/ ApiSerialize
    \/ ApiParse

SpecApi == InitApi /\ [][NextApi]_vars

(***************************************************************************)
(* C10: serializing a Documentation built with relationships,              *)
(* add_relationship and add_singular_relationship and parsing the JSON     *)
(* back succeeds and gives a Documentation with the same {type, id}        *)
(* Documents and, for every relation of every Document, the same shape     *)
(* (array or single object) and the same Data entries.                     *)
(***************************************************************************)
DocumentsIn(d) ==
    (IF d.data = None THEN {} ELSE {d.data[1]})
        \cup (IF d.included = None THEN {}
              ELSE {d.included[1][i] : i \in DOMAIN d.included[1]})

TypeAndId(doc) == [ty |-> doc.ty, id |-> doc.id]

SameRelations(a, b) ==
    /\ TypeAndId(a) = TypeAndId(b)
    /\ RelationKeys(a) = RelationKeys(b)
    /\ \A key \in RelationKeys(a) :
           /\ Relation(a, key).variant = Relation(b, key).variant
           /\ Relation(a, key).variant = "Vec" =>
                  Relation(a, key).vec = Relation(b, key).vec
           /\ Relation(a, key).variant = "Data" =>
                  Relation(a, key).data = Relation(b, key).data

MaxLines == 4

Whitespace == {" ", LF}

RECURSIVE trim_left(_)
trim_left(line) ==
    IF line # <<>> /\ Head(line) \in Whitespace THEN trim_left(Tail(line)) ELSE line

RECURSIVE trim_right(_)
trim_right(line) ==
    IF line # <<>> /\ line[Len(line)] \in Whitespace
    THEN trim_right(SubSeq(line, 1, Len(line) - 1))
    ELSE line

\* str::trim
trim(line) == trim_right(trim_left(line))

\* str::starts_with
starts_with(line, prefix) ==
    /\ Len(prefix) <= Len(line)
    /\ SubSeq(line, 1, Len(prefix)) = prefix

\* a variant of trimmed_line that keeps the marker of a hidden line
trimmed_line_KeepHidden(text) ==
    LET line == trim(text)
    IN  IF starts_with(line, <<"#", "#">>) THEN SubSeq(line, 2, Len(line))
        ELSE line

\* what find_test_blocks pushes for the Text event of one line
trimmed_line(text) ==
    LET line == trim(text)
    IN  IF starts_with(line, <<"#", "#">>) THEN SubSeq(line, 2, Len(line))
        ELSE IF starts_with(line, <<"#", " ">>) THEN SubSeq(line, 3, Len(line))
        ELSE line

\* a variant of IsTestable that takes every code block
IsTestable_AnyLanguage(event) ==
    /\ event.ev = "Start"
    /\ event.tag = "CodeBlock"

\* the guard of the outer match: a code block that is unlabeled or "rust"
IsTestable(event) ==
    /\ event.ev = "Start"
    /\ event.tag = "CodeBlock"
    /\ (event.language = <<>> \/ event.language = <<"rust">>)

\* the two nested loops of find_test_blocks over the events from position
\* i; inside is TRUE in the inner loop, which collects the lines in test
RECURSIVE FindTestBlocksLoop(_, _, _, _, _)
FindTestBlocksLoop(events, i, inside, test, tests) ==
    IF i > Len(events) THEN tests
    ELSE LET event == events[i] IN
         IF ~inside THEN
             IF IsTestable(event)
             THEN FindTestBlocksLoop(events, i + 1, TRUE, <<>>, tests)
             ELSE FindTestBlocksLoop(events, i + 1, FALSE, test, tests)
         ELSE IF event.ev = "End" /\ event.tag = "CodeBlock"
             THEN FindTestBlocksLoop(events, i + 1, FALSE, <<>>, Append(tests, test))
         ELSE IF event.ev = "Text"
             THEN FindTestBlocksLoop(events, i + 1, TRUE,
                                     test \o trimmed_line(event.text), tests)
         ELSE FindTestBlocksLoop(events, i + 1, TRUE, test, tests)

find_test_blocks(docs) == FindTestBlocksLoop(Parser(docs), 1, FALSE, <<>>, <<>>)

(***************************************************************************)
(* syn::parse_crate for the fragment of Rust the snippets are written in:  *)
(* inner attributes #![a] first, then the items `extern crate a;`,         *)
(* `use a;` and `fn a() {}`.  White space separates tokens and is dropped. *)
(***************************************************************************)
Tokenize(text) == SelectSeq(text, LAMBDA c : c \notin Whitespace)

Reserved == {"extern", "crate", "use", "fn", "#", "!", "[", "]", "(", ")", "{", "}",
             ";", "+", "1", BACKTICK}

Item(kind, ident) == [kind |-> kind, ident |-> ident]

ParseErr == [ok |-> FALSE, attrs |-> <<>>, items |-> <<>>]

\* a token sequence begins with the given shape; "" stands for any identifier
Matches(tokens, shape) ==
    /\ Len(shape) <= Len(tokens)
    /\ \A k \in DOMAIN shape :
           IF shape[k] = "" THEN tokens[k] \notin Reserved ELSE tokens[k] = shape[k]

RECURSIVE ParseItems(_)
ParseItems(tokens) ==
    LET then(item, n) ==
            LET rest == ParseItems(SubSeq(tokens, n + 1, Len(tokens)))
            IN  IF rest.ok THEN [rest EXCEPT !.items = <<item>> \o rest.items]
                ELSE ParseErr
    IN  IF tokens = <<>> THEN [ok |-> TRUE, attrs |-> <<>>, items |-> <<>>]
        ELSE IF Matches(tokens, <<"extern", "crate", "", ";">>)
            THEN then(Item("ExternCrate", tokens[3]), 4)
        ELSE IF Matches(tokens, <<"use", "", ";">>)
            THEN then(Item("Use", tokens[2]), 3)
        ELSE IF Matches(tokens, <<"fn", "", "(", ")", "{", "}">>)
            THEN then(Item("Fn", tokens[2]), 6)
        ELSE ParseErr

RECURSIVE ParseAttrs(_)
ParseAttrs(tokens) ==
    IF Matches(tokens, <<"#", "!", "[", "", "]">>) THEN
        LET rest == ParseAttrs(SubSeq(tokens, 6, Len(tokens)))
        IN  IF rest.ok THEN [rest EXCEPT !.attrs = <<tokens[4]>> \o rest.attrs]
            ELSE ParseErr
    ELSE ParseItems(tokens)

\* syn::parse_crate(test): ok is FALSE for Err
parse_crate(test) == ParseAttrs(Tokenize(test))

(***************************************************************************)
(* quote::ToTokens and Tokens::to_string: the tokens of the syntax tree,   *)
(* separated by single spaces.                                             *)
(***************************************************************************)
ItemTokens(item) ==
    IF item.kind = "ExternCrate" THEN <<"extern", "crate", item.ident, ";">>
    ELSE IF item.kind = "Use" THEN <<"use", item.ident, ";">>
    ELSE <<"fn", item.ident, "(", ")", "{", "}">>

\* Stmt::Item(Box::new(item))
StmtItem(item) == [stmt |-> "Item", item |-> item]
\* Stmt::Semi of the call `main()`
StmtMainCall == [stmt |-> "Semi", call |-> "main"]

StmtTokens(stmt) ==
    IF stmt.stmt = "Item" THEN ItemTokens(stmt.item)
    ELSE <<stmt.call, "(", ")", ";">>

RECURSIVE StmtsTokens(_)
StmtsTokens(stmts) ==
    IF stmts = <<>> THEN <<>>
    ELSE StmtTokens(Head(stmts)) \o StmtsTokens(Tail(stmts))

RECURSIVE AttrsTokens(_)
AttrsTokens(attrs) ==
    IF attrs = <<>> THEN <<>>
    ELSE <<"#", "!", "[", Head(attrs), "]">> \o AttrsTokens(Tail(attrs))

\* the item `#[test] fn a_doc_test() { stmts }`
TestFnTokens(stmts) ==
    <<"#", "[", "test", "]", "fn", "a_doc_test", "(", ")", "{">>
        \o StmtsTokens(stmts) \o <<"}">>

RECURSIVE to_string(_)
to_string(tokens) ==
    IF Len(tokens) <= 1 THEN tokens
    ELSE <<Head(tokens), " ">> \o to_string(Tail(tokens))

(***************************************************************************)
(* preprocess                                                              *)
(***************************************************************************)
has_extern_crate(items) == \E i \in DOMAIN items : items[i].kind = "ExternCrate"

\* a variant of has_main_function that is satisfied with any function
has_main_function_AnyFn(items) == \E i \in DOMAIN items : items[i].kind = "Fn"

has_main_function(items) ==
    \E i \in DOMAIN items : items[i].kind = "Fn" /\ items[i].ident = "main"

\* a variant of InsertsExternCrate that does not look at the snippet
InsertsExternCrate_Always(items, crate_name_) == crate_name_ # "std"

\* the condition under which `extern crate <crate_name>;` is inserted
InsertsExternCrate(items, crate_name_) ==
    ~has_extern_crate(items) /\ crate_name_ # "std"

\* a variant of Stmts that puts the inserted declaration last
Stmts_ExternCrateLast(items, crate_name_) ==
    LET stmts == [i \in DOMAIN items |-> StmtItem(items[i])]
        called == IF has_main_function(items) THEN Append(stmts, StmtMainCall)
                  ELSE stmts
    IN  IF InsertsExternCrate(items, crate_name_)
        THEN Append(called, StmtItem(Item("ExternCrate", crate_name_)))
        ELSE called

\* the statements of a_doc_test
Stmts(items, crate_name_) ==
    LET stmts == [i \in DOMAIN items |-> StmtItem(items[i])]
        called == IF has_main_function(items) THEN Append(stmts, StmtMainCall)
                  ELSE stmts
    IN  IF InsertsExternCrate(items, crate_name_)
        THEN <<StmtItem(Item("ExternCrate", crate_name_))>> \o called
        ELSE called

\* a variant of Fallback that leaves out the line breaks
Fallback_OneLine(test) ==
    <<"#", "[", "test", "]", " ", "fn", " ", "a_doc_test", "(", ")", " ", "{">>
        \o test \o <<"}">>

\* format!("#[test] fn a_doc_test() {{\n{}\n}}", test)
Fallback(test) ==
    <<"#", "[", "test", "]", " ", "fn", " ", "a_doc_test", "(", ")", " ", "{", LF>>
        \o test \o <<LF, "}">>

preprocess(test, crate_name_) ==
    LET ast == parse_crate(test)
    IN  IF ast.ok
        THEN to_string(AttrsTokens(ast.attrs)
                           \o TestFnTokens(Stmts(ast.items, crate_name_)))
        ELSE Fallback(test)

(***************************************************************************)
(* gather_tests                                                            *)
(***************************************************************************)
RECURSIVE Concat(_)
Concat(words) == IF words = <<>> THEN "" ELSE Head(words) \o Concat(Tail(words))

\* id.split("::").next().unwrap(): the text before the first "::"
RECURSIVE FirstSegment(_)
FirstSegment(id) ==
    IF id = <<>> \/ Head(id) = "::" THEN ""
    ELSE Head(id) \o FirstSegment(Tail(id))

gather_tests(doc) ==
    IF "docs" \in DOMAIN doc.attributes
    THEN LET blocks == find_test_blocks(doc.attributes["docs"])
         IN  [i \in DOMAIN blocks |-> preprocess(blocks[i], FirstSegment(doc.id))]
    ELSE <<>>

(***************************************************************************)
(* SpecDoctest: gather_tests applied to one Document whose docs are        *)
(* written with at most MaxLines of the lines below.                       *)
(***************************************************************************)
DocLines == { <<BACKTICK, BACKTICK, BACKTICK>>,
              <<BACKTICK, BACKTICK, BACKTICK, "rust">>,
              <<BACKTICK, BACKTICK, BACKTICK, "c">>,
              <<"#", " ", "use", " ", "dep", ";">>,
              <<"#", "#", "!", "[", "a", "]">>,
              <<" ", " ", " ", " ", "fn", " ", "main", "(", ")", " ", "{", "}">>,
              <<"fn", " ", "f", "(", ")", " ", "{", "}">>,
              <<"extern", " ", "crate", " ", "dep", ";">> }

\* the text of the lines, a line break between two of them
RECURSIVE Unlines(_)
Unlines(lines) ==
    IF lines = <<>> THEN <<>>
    ELSE IF Len(lines) = 1 THEN lines[1]
    ELSE Head(lines) \o <<LF>> \o Unlines(Tail(lines))

\* ids of Documents: a qualified name, written segment by segment
DoctestIds == { <<"pkg", "::", "m">>, <<"dep", "::", "m">>, <<"std">> }

\* the Documents with one of the ids, without docs or with one of the texts
TestDocuments(ids, texts) ==
    LET doc(id) == Document_id(Document_ty(Document_new, "module"), id)
    IN  {doc(id) : id \in ids}
            \cup {Document_attributes(doc(id), "docs", docs) : id \in ids, docs \in texts}

\* create_documentation is not running
BuildIdle ==
    /\ host = [kind |-> [d \in DefIds |-> "Mod"], parents |-> [d \in DefIds |-> {RootId}]]
    /\ crate_name = RootName
    /\ pc = "idle"
    /\ document = Document_new
    /\ queue = <<>>
    /\ included = <<>>
    /\ outcome = "running"
    /\ error = None
    /\ failedAt = None
    /\ documentation = None

InitDoctest ==
    /\ BuildIdle
    /\ ApiIdle
    /\ LibIdle
    /\ dt_pc = "document"
    /\ dt_document \in TestDocuments(DoctestIds,
           {Unlines(lines) : lines \in UNION {[1..n -> DocLines] : n \in 0..MaxLines}})
    /\ dt_blocks = <<>>
    /\ dt_tests = <<>>
    /\ run_pc = "idle"
    /\ run_docs = Documentation_new
    /\ run_tests = <<>>
    /\ files = EmptyMap
    /\ cargo = None
    /\ rustc = None
    /\ binary = None
    /\ executed = <<>>
    /\ run_outcome = "running"
    /\ run_error = None

\* gather_tests(&document); dt_blocks keeps what find_test_blocks gave it
GatherTests ==
    /\ dt_pc = "document"
    /\ dt_blocks' = IF "docs" \in DOMAIN dt_document.attributes
                    THEN find_test_blocks(dt_document.attributes["docs"])
                    ELSE <<>>
    /\ dt_tests' = gather_tests(dt_document)
    /\ dt_pc' = "gathered"
    /\ UNCHANGED <<buildVars, apiVars, libVars, runVars, dt_document>>

NextDoctest == GatherTests

SpecDoctest == InitDoctest /\ [][NextDoctest]_vars

(***************************************************************************)
(* The code regions of a doc text, read off its lines: what the claims     *)
(* about find_test_blocks are stated against.                              *)
(***************************************************************************)
\* the lines of a text, without their line breaks
RECURSIVE SplitLines(_, _)
SplitLines(text, i) ==
    IF i > Len(text) + 1 THEN <<>>
    ELSE LET e == LineEnd(text, i)
         IN  <<SubSeq(text, i, e - 1)>> \o SplitLines(text, e + 1)

Fence == <<BACKTICK, BACKTICK, BACKTICK>>
FourSpaces == <<" ", " ", " ", " ">>

\* the code regions of the lines from line i on, in document order; mode
\* is "none" | "para" | "fence" | "indent", the last region is the open one
RECURSIVE CodeRegions(_, _, _, _)
CodeRegions(lines, i, mode, acc) ==
    IF i > Len(lines) THEN acc
    ELSE LET line == lines[i]
             add(l) == [acc EXCEPT ![Len(acc)].lines = Append(@, l)]
         IN  IF mode = "fence" THEN
                 IF line = Fence THEN CodeRegions(lines, i + 1, "none", acc)
                 ELSE CodeRegions(lines, i + 1, "fence", add(line))
             ELSE IF starts_with(line, Fence) THEN
                 CodeRegions(lines, i + 1, "fence",
                             Append(acc, [fenced |-> TRUE,
                                          language |-> SubSeq(line, 4, Len(line)),
                                          lines |-> <<>>]))
             ELSE IF starts_with(line, FourSpaces) /\ Len(line) > 4 /\ mode # "para" THEN
                 IF mode = "indent"
                 THEN CodeRegions(lines, i + 1, "indent", add(SubSeq(line, 5, Len(line))))
                 ELSE CodeRegions(lines, i + 1, "indent",
                                  Append(acc, [fenced |-> FALSE, language |-> <<>>,
                                               lines |-> <<SubSeq(line, 5, Len(line))>>]))
             ELSE IF line = <<>> THEN CodeRegions(lines, i + 1, "none", acc)
             ELSE IF starts_with(line, <<"#", " ">>)
                 THEN CodeRegions(lines, i + 1, "none", acc)
             ELSE CodeRegions(lines, i + 1, "para", acc)

Gathered == dt_pc = "gathered" /\ "docs" \in DOMAIN dt_document.attributes

\* the code regions of the gathered Document's docs
Regions == CodeRegions(SplitLines(dt_document.attributes["docs"], 1), 1, "none", <<>>)

TestableLanguage(region) == region.language \in {<<>>, <<"rust">>}

\* the regions the claims call testable: fenced, and unlabeled or "rust"
TestableFenced == SelectSeq(Regions, LAMBDA r : r.fenced /\ TestableLanguage(r))

\* the code blocks that are unlabeled or "rust", fenced or indented
TestableBlocks == SelectSeq(Regions, TestableLanguage)

RECURSIVE ExtractLines(_)
ExtractLines(lines) ==
    IF lines = <<>> THEN <<>>
    ELSE trimmed_line(Head(lines)) \o ExtractLines(Tail(lines))

\* C11 as stated: find_test_blocks returns one snippet per fenced code
\* region whose tag is empty or "rust", in document order, and nothing else:
\* nothing for other tags, the empty list for a text without a fenced region.
C11_OneSnippetPerTestableFence ==
    Gathered =>
        /\ Len(dt_blocks) = Len(TestableFenced)
        /\ \A k \in DOMAIN dt_blocks : dt_blocks[k] = ExtractLines(TestableFenced[k].lines)

\* C11 amended: find_test_blocks returns one snippet per code block whose
\* language is empty or "rust", in document order, whether the block is
\* fenced or indented by four spaces; a block with another tag contributes
\* nothing and a text without any code block yields the empty list.
C11_OneSnippetPerTestableBlock ==
    Gathered =>
        /\ Len(dt_blocks) = Len(TestableBlocks)
        /\ \A k \in DOMAIN dt_blocks : dt_blocks[k] = ExtractLines(TestableBlocks[k].lines)

\* a text with a region tagged "c" and two testable regions of different
\* contents has been gathered
C11_Witness ==
    /\ Gathered
    /\ \E k \in DOMAIN Regions : Regions[k].language = <<"c">>
    /\ Len(TestableFenced) >= 1
    /\ Len(dt_blocks) = 2
    /\ dt_blocks[1] # dt_blocks[2]

\* the rewriting of one line as C12 states it
RewrittenLine(line) ==
    IF starts_with(line, <<"#", "#">>) THEN SubSeq(line, 2, Len(line))
    ELSE IF starts_with(line, <<"#", " ">>) THEN SubSeq(line, 3, Len(line))
    ELSE line

RECURSIVE RewrittenLines(_)
RewrittenLines(lines) ==
    IF lines = <<>> THEN <<>>
    ELSE RewrittenLine(Head(lines)) \o RewrittenLines(Tail(lines))

WithoutLineBreaks(text) == SelectSeq(text, LAMBDA c : c # LF)

\* C12: every line of a testable region is rewritten by one of three rules:
\* a line beginning with "##" loses its first character, a line beginning
\* with "# " loses those two characters, any other line is kept character
\* for character, leading white space included.  (The snippet is compared
\* up to line breaks, which the claim does not speak of.)
C12_LinesRewrittenByThreeRules ==
    Gathered =>
        \A k \in DOMAIN dt_blocks :
            k \in DOMAIN TestableBlocks =>
                WithoutLineBreaks(dt_blocks[k]) = RewrittenLines(TestableBlocks[k].lines)

Contains(text, c) == \E i \in DOMAIN text : text[i] = c

\* the line is a hidden line, "# " and a rest free of "#", after white space
IsHiddenLine(line) ==
    LET l == trim(line)
    IN  starts_with(l, <<"#", " ">>) /\ ~Contains(SubSeq(l, 3, Len(l)), "#")

Package == FirstSegment(dt_document.id)

\* snippet k parses as a sequence of items
Parses(k) == parse_crate(dt_blocks[k]).ok

\* the number of tokens of the inner attributes the tokens begin with
RECURSIVE AttrLen(_)
AttrLen(tokens) ==
    IF Len(tokens) >= 5 /\ tokens[1] = "#" /\ tokens[2] = "!"
    THEN 5 + AttrLen(SubSeq(tokens, 6, Len(tokens)))
    ELSE 0

\* the tokens of the top-level items of snippet k
SnippetItems(k) ==
    LET tokens == Tokenize(dt_blocks[k])
    IN  SubSeq(tokens, AttrLen(tokens) + 1, Len(tokens))

ProgramTokens(k) == Tokenize(dt_tests[k])

TestFnHead == <<"#", "[", "test", "]", "fn", "a_doc_test", "(", ")", "{">>

\* the tokens between the braces of the test function of program k
Body(k) ==
    LET tokens == ProgramTokens(k)
    IN  SubSeq(tokens, AttrLen(tokens) + Len(TestFnHead) + 1, Len(tokens) - 1)

\* the names declared with `extern crate` in the tokens, in order
RECURSIVE Decls(_)
Decls(tokens) ==
    IF Len(tokens) < 3 THEN <<>>
    ELSE IF tokens[1] = "extern" /\ tokens[2] = "crate"
         THEN <<tokens[3]>> \o Decls(SubSeq(tokens, 4, Len(tokens)))
         ELSE Decls(Tail(tokens))

ExternCrateOf(name) == <<"extern", "crate", name, ";">>
MainCall == <<"main", "(", ")", ";">>

HasMain(tokens) ==
    \E i \in DOMAIN tokens :
        i + 1 <= Len(tokens) /\ tokens[i] = "fn" /\ tokens[i + 1] = "main"

\* C14: for a snippet that parses as items, `extern crate <package>;` is
\* inserted as the first statement of a_doc_test if and only if the snippet
\* has no extern crate item and the package is not "std"; otherwise the
\* body begins with the snippet's own items and declares nothing more.
C14_ExternCrateInsertedFirst ==
    Gathered =>
        \A k \in DOMAIN dt_blocks :
            Parses(k) =>
                LET items == SnippetItems(k)
                    body == Body(k)
                IN  IF Decls(items) = <<>> /\ Package # "std"
                    THEN /\ starts_with(body, ExternCrateOf(Package))
                         /\ starts_with(SubSeq(body, 5, Len(body)), items)
                         /\ Decls(body) = <<Package>>
                    ELSE /\ starts_with(body, items)
                         /\ Decls(body) = Decls(items)

\* a snippet of two items without extern crate was synthesized for "pkg"
C14_Witness ==
    /\ Gathered
    /\ Package = "pkg"
    /\ \E k \in DOMAIN dt_blocks :
           /\ Parses(k)
           /\ Decls(SnippetItems(k)) = <<>>
           /\ Len(SnippetItems(k)) > 6

C16_PackageDeclaredOnce ==
    Gathered =>
        \A k \in DOMAIN dt_blocks :
            (Parses(k) /\ Package # "std") =>
                Cardinality({i \in DOMAIN Decls(ProgramTokens(k)) :
                                Decls(ProgramTokens(k))[i] = Package}) = 1

\* C16 amended: for a snippet that parses as items and a package other than
\* "std", the program declares exactly the package when the snippet has no
\* extern crate item, and exactly what the snippet declares when it has one:
\* nothing is added then, even if the snippet does not name the package.
C16_PackageDeclaredUnlessSnippetDeclares ==
    Gathered =>
        \A k \in DOMAIN dt_blocks :
            (Parses(k) /\ Package # "std") =>
                Decls(ProgramTokens(k)) =
                    IF Decls(SnippetItems(k)) = <<>> THEN <<Package>>
                    ELSE Decls(SnippetItems(k))

\* a snippet that declares another crate was synthesized for "pkg"
C16_Witness ==
    /\ Gathered
    /\ Package = "pkg"
    /\ \E k \in DOMAIN dt_blocks :
           /\ Parses(k)
           /\ Decls(SnippetItems(k)) = <<"dep">>
           /\ Decls(ProgramTokens(k)) = <<"dep">>

\* C17: preprocess never fails: gather_tests returns one program per
\* snippet, and for a snippet that does not parse as items the program is
\* "#[test] fn a_doc_test() {", a line break, the snippet unchanged, a line
\* break and "}".
C17_UnparseableSnippetWrapped ==
    dt_pc = "gathered" =>
        /\ Len(dt_tests) = Len(dt_blocks)
        /\ \A k \in DOMAIN dt_blocks :
               ~Parses(k) =>
                   dt_tests[k] =
                       <<"#", "[", "test", "]", " ", "fn", " ", "a_doc_test", "(", ")",
                         " ", "{">> \o <<LF>> \o dt_blocks[k] \o <<LF>> \o <<"}">>

\* a snippet that is not a sequence of items was wrapped
C17_Witness ==
    /\ Gathered
    /\ \E k \in DOMAIN dt_blocks :
           /\ ~Parses(k)
           /\ dt_blocks[k] # <<>>
           /\ Len(dt_tests[k]) = Len(dt_blocks[k]) + 15

(***************************************************************************)
(* The test run: find_tests, save_tests, compile_tests and execute_tests,  *)
(* called in this order on the Documentation of the package, each call     *)
(* made only if the one before returned Ok.                                *)
(***************************************************************************)
\* the Documents in included
MaxDocuments == 2
\* the lines cargo build prints
MaxMessages == 2

find_tests(docs) ==
    LET krate == docs.data[1]
        all == <<krate>> \o (IF docs.included = None THEN <<>> ELSE docs.included[1])
    IN  [i \in DOMAIN all |-> <<all[i].id, gather_tests(all[i])>>]

\* str::replace("::", "_") on a name written segment by segment
replace(name) == [i \in DOMAIN name |-> IF name[i] = "::" THEN "_" ELSE name[i]]

\* format!("{}_{}", id, number).replace("::", "_")
TestName(id, number) == Concat(replace(id \o <<"_", ToString(number)>>))

\* the pairs <<name, test>> of the two loops of save_tests, in their order
RECURSIVE NamedTests(_)
NamedTests(tests) ==
    IF tests = <<>> THEN <<>>
    ELSE LET id == Head(tests)[1]
             programs == Head(tests)[2]
         IN  [n \in DOMAIN programs |-> <<TestName(id, n - 1), programs[n]>>]
                 \o NamedTests(Tail(tests))

\* File::create and write_all for the first n named tests, one after another
RECURSIVE WriteTests(_, _, _)
WriteTests(dir, named, n) ==
    IF n = 0 THEN dir
    ELSE LET before == WriteTests(dir, named, n - 1)
         IN  MapInsert(before, named[n][1] \o ".rs", named[n][2])

RECURSIVE ModLines(_)
ModLines(mods) ==
    IF mods = <<>> THEN <<>>
    ELSE <<"mod", " ", Head(mods), ";", LF>> \o ModLines(Tail(mods))

\* the text of main.rs
MainRs(mods, crate_name_) ==
    <<"extern", " ", "crate", " ", crate_name_, ";", LF>>
        \o ModLines(mods)
        \o <<"fn", " ", "main", "(", ")", " ", "{", "}">>

\* the directory after save_tests returned Ok
save_tests(dir, tests, crate_name_) ==
    LET named == NamedTests(tests)
        mods == [n \in DOMAIN named |-> named[n][1]]
    IN  MapInsert(WriteTests(dir, named, Len(named)), "main.rs", MainRs(mods, crate_name_))

\* error::DocTestErr { output }
DocTestErr(output) == [kind |-> "DocTestErr", output |-> output]

(***************************************************************************)
(* find_externs_for_crate: the messages of `cargo build --message-format   *)
(* json` are serde_json Values, one per line.                              *)
(***************************************************************************)
ArtifactMessage(name, filename) ==
    JObject([k \in {"reason", "target", "filenames"} |->
                IF k = "reason" THEN JString(<<"compiler-artifact">>)
                ELSE IF k = "target" THEN JObject([n \in {"name"} |-> JString(name)])
                ELSE JArray(<<JString(filename)>>)])

CargoMessages ==
    { ArtifactMessage(<<"dep">>, <<"/", "t", "/", "debug", "/", "libdep.rlib">>),
      ArtifactMessage(<<"pkg">>, <<"/", "u", "/", "libpkg.rlib">>),
      JObject([k \in {"reason"} |-> JString(<<"build-script-executed">>)]) }

\* Value::pointer for a path of object keys and array indices (from 0)
RECURSIVE pointer(_, _)
pointer(value, path) ==
    IF path = <<>> THEN Some(value)
    ELSE IF value.j = "object" /\ Head(path) \in DOMAIN value.fields
        THEN pointer(value.fields[Head(path)], Tail(path))
    ELSE IF value.j = "array" /\ Head(path) \in 0..(Len(value.items) - 1)
        THEN pointer(value.items[Head(path) + 1], Tail(path))
    ELSE None

\* Value::to_string (Display): the JSON text of the value; of a string, the
\* string between quotation marks
Value_to_string(value) ==
    IF value.j = "string" THEN <<"\"">> \o value.s \o <<"\"">> ELSE <<"null">>

IsCompilerArtifact(message) ==
    /\ "reason" \in DOMAIN message.fields
    /\ message.fields["reason"] = JString(<<"compiler-artifact">>)

\* the loop of find_externs_for_crate over the messages
RECURSIVE Externs(_)
Externs(messages) ==
    IF messages = <<>> THEN <<>>
    ELSE LET message == Head(messages)
         IN  IF IsCompilerArtifact(message)
             THEN <<[name |-> Value_to_string(pointer(message, <<"target", "name">>)[1]),
                     location |-> pointer(message, <<"filenames", 0>>)[1].s]>>
                      \o Externs(Tail(messages))
             ELSE Externs(Tail(messages))

\* Path::parent: the path without its last component; None for the root
\* and for the empty path
RECURSIVE parent(_)
parent(path) ==
    IF path = <<>> \/ path = <<"/">> THEN None
    ELSE IF path[Len(path)] # "/" THEN
        LET dir == SubSeq(path, 1, Len(path) - 1)
        IN  IF dir = <<>> \/ dir = <<"/">> THEN Some(dir)
            ELSE IF dir[Len(dir)] = "/" THEN Some(SubSeq(dir, 1, Len(dir) - 1))
            ELSE parent(dir)
    ELSE parent(SubSeq(path, 1, Len(path) - 1))

find_search_path(crate_externs) ==
    IF crate_externs = <<>> THEN [ok |-> FALSE, err |-> DocTestErr(<<"No externs to get search path">>)]
    ELSE LET path == parent(crate_externs[1].location)
         IN  IF path = None
             THEN [ok |-> FALSE, err |-> DocTestErr(<<"No parent for extern path">>)]
             ELSE [ok |-> TRUE, path |-> path[1]]

TEST_NAME == <<"rustdoc-test">>

RECURSIVE ExternArgs(_)
ExternArgs(crate_externs) ==
    IF crate_externs = <<>> THEN <<>>
    ELSE << <<"--extern">>, Head(crate_externs).name \o <<"=">> \o Head(crate_externs).location >>
             \o ExternArgs(Tail(crate_externs))

\* the arguments of the rustc command
RustcArgs(search_path, crate_externs) ==
    << <<"main.rs">>, <<"--test">>, <<"-o">>, TEST_NAME, <<"--cap-lints">>, <<"allow">>,
       <<"-L">>, search_path >> \o ExternArgs(crate_externs)

\* a variant of Succeeded that takes every exit status for success
Succeeded_Always(output) == TRUE

\* output.status.success()
Succeeded(output) == output.status = 0

\* what a process can end with: an exit status and the text it wrote to its
\* standard error
ProcessOutputs == [status : {0, 1}, stderr : {<<>>, <<"error">>}]

\* Child::wait_with_output(): the Output holds the exit status and, of the
\* standard error, what came through a pipe; an inherited stream goes to
\* the parent's and leaves the Output's stderr empty.  Command::output()
\* pipes the stream, Command::spawn() inherits it.
wait_with_output(process, stderr_) ==
    [status |-> process.status,
     stderr |-> IF stderr_ = "piped" THEN process.stderr ELSE <<>>]

(***************************************************************************)
(* SpecTest: one test run on a Documentation whose crate Document is "pkg" *)
(* and whose included Documents have different ids.                        *)
(***************************************************************************)
RunPackage == "pkg"
SavePath == <<"/", "doctests">>

RunIds == { <<"pkg", "::", "a", "_", "b">>, <<"pkg", "::", "a", "::", "b">>,
            <<"pkg", "::", "c">> }

\* doc texts with one and with two testable regions
RunDocs == { Unlines(<< Fence, <<"use", " ", "dep", ";">>, Fence >>),
             Unlines(<< Fence, <<"fn", " ", "main", "(", ")", " ", "{", "}">>, Fence,
                        Fence \o <<"rust">>, <<"1", " ", "+">> >>) }

RunDocumentations ==
    { Documentation_included(Documentation_data(Documentation_new, krate), inc) :
          krate \in TestDocuments({<<RunPackage>>}, RunDocs),
          inc \in {i \in UNION {[1..n -> TestDocuments(RunIds, RunDocs)] : n \in 0..MaxDocuments} :
                      \A j, k \in DOMAIN i : j # k => i[j].id # i[k].id} }

InitTest ==
    /\ BuildIdle
    /\ ApiIdle
    /\ LibIdle
    /\ dt_pc = "idle"
    /\ dt_document = Document_new
    /\ dt_blocks = <<>>
    /\ dt_tests = <<>>
    /\ run_pc = "start"
    /\ run_docs \in RunDocumentations
    /\ run_tests = <<>>
    /\ files = EmptyMap
    /\ cargo = None
    /\ rustc = None
    /\ binary = None
    /\ executed = <<>>
    /\ run_outcome = "running"
    /\ run_error = None

\* rustdoc::test: the call it makes next; every call but the last is made
\* with `?`
test_next ==
    IF run_outcome # "running" THEN "return"
    ELSE IF run_pc = "start" THEN "find_tests"
    ELSE IF run_pc = "found" THEN "save_tests"
    ELSE IF run_pc = "saved" THEN "compile_tests"
    ELSE IF run_pc = "compiled" THEN "execute_tests"
    ELSE "return"

RunErr(err) ==
    /\ run_outcome' = "Err"
    /\ run_error' = Some(err)
    /\ run_pc' = "done"

\* find_tests(&docs)
FindTests ==
    /\ test_next = "find_tests"
    /\ IF run_docs.data = None
       THEN /\ run_outcome' = "Panic"
            /\ run_pc' = "done"
            /\ UNCHANGED run_tests
       ELSE /\ run_tests' = find_tests(run_docs)
            /\ run_pc' = "found"
            /\ UNCHANGED run_outcome
    /\ UNCHANGED <<buildVars, apiVars, libVars, doctestVars, run_docs, files, cargo, rustc,
                   binary, executed, run_error>>

\* save_tests(&tests, save_path, crate_name) returns Ok
SaveTests ==
    /\ test_next = "save_tests"
    /\ files' = save_tests(files, run_tests, RunPackage)
    /\ run_pc' = "saved"
    /\ UNCHANGED <<buildVars, apiVars, libVars, doctestVars, run_docs, run_tests, cargo, rustc,
                   binary, executed, run_outcome, run_error>>

\* save_tests: File::create or write_all fails after n files were written
SaveTestsFails ==
    /\ test_next = "save_tests"
    /\ \E n \in 0..Len(NamedTests(run_tests)) :
           files' = WriteTests(files, NamedTests(run_tests), n)
    /\ RunErr([kind |-> "Io"])
    /\ UNCHANGED <<buildVars, apiVars, libVars, doctestVars, run_docs, run_tests, cargo, rustc,
                   binary, executed>>

\* compile_tests(&config, save_path): cargo does not exit successfully
CompileTestsCargoFails ==
    /\ test_next = "compile_tests"
    /\ cargo' = Some([ok |-> FALSE, messages |-> <<>>])
    /\ RunErr([kind |-> "Msg", output |-> <<"cargo did not exit successfully">>])
    /\ UNCHANGED <<buildVars, apiVars, libVars, doctestVars, run_docs, run_tests, files, rustc,
                   binary, executed>>

\* compile_tests(&config, save_path): cargo prints its messages; rustc, if
\* it is reached, ends with some output
CompileTests ==
    /\ test_next = "compile_tests"
    /\ \E messages \in UNION {[1..n -> CargoMessages] : n \in 0..MaxMessages},
          process \in ProcessOutputs :
           LET result == [ok |-> TRUE, messages |-> messages]
               output == wait_with_output(process, "piped")
               crate_externs == Externs(messages)
               search_path == find_search_path(crate_externs)
           IN  /\ cargo' = Some(result)
               /\ IF ~search_path.ok THEN
                      /\ RunErr(search_path.err)
                      /\ UNCHANGED <<rustc, binary>>
                  ELSE
                      /\ rustc' = Some([args |-> RustcArgs(search_path.path, crate_externs),
                                        output |-> output])
                      /\ IF ~Succeeded(output) THEN
                             /\ RunErr(DocTestErr(output.stderr))
                             /\ UNCHANGED binary
                         ELSE
                             /\ binary' = Some(SavePath \o <<"/">> \o TEST_NAME)
                             /\ run_pc' = "compiled"
                             /\ UNCHANGED <<run_outcome, run_error>>
    /\ UNCHANGED <<buildVars, apiVars, libVars, doctestVars, run_docs, run_tests, files, executed>>

\* execute_tests(&binary)
ExecuteTests ==
    /\ test_next = "execute_tests"
    /\ \E process \in ProcessOutputs :
           LET output == wait_with_output(process, "inherit")
           IN  /\ executed' = Append(executed, [binary |-> binary[1], process |-> process])
               /\ IF Succeeded(output)
                  THEN /\ run_outcome' = "Ok"
                       /\ run_pc' = "done"
                       /\ UNCHANGED run_error
                  ELSE RunErr(DocTestErr(output.stderr))
    /\ UNCHANGED <<buildVars, apiVars, libVars, doctestVars, run_docs, run_tests, files, cargo,
                   rustc, binary>>

\* execute_tests(&binary): the binary cannot be spawned or waited for
ExecuteTestsFails ==
    /\ test_next = "execute_tests"
    /\ RunErr([kind |-> "Io"])
    /\ UNCHANGED <<buildVars, apiVars, libVars, doctestVars, run_docs, run_tests, files, cargo,
                   rustc, binary, executed>>

NextTest ==
    \/ FindTests
    \/ SaveTests
    \/ SaveTestsFails
    \/ CompileTestsCargoFails
    \/ CompileTests
    \/ ExecuteTests
    \/ ExecuteTestsFails

SpecTest == InitTest /\ [][NextTest]_vars

(***************************************************************************)
(* The claims about the test run.                                          *)
(***************************************************************************)
\* save_tests returned Ok: main.rs is the last file it writes
SaveSucceeded == "main.rs" \in DOMAIN files

\* the snippets of the list as pairs <<document, ordinal>>, in list order
RECURSIVE ListedFrom(_)
ListedFrom(i) ==
    IF i > Len(run_tests) THEN <<>>
    ELSE [n \in DOMAIN run_tests[i][2] |-> <<i, n>>] \o ListedFrom(i + 1)

Listed == ListedFrom(1)

\* the module name of a listed snippet
ModuleName(l) == TestName(run_tests[l[1]][1], l[2] - 1)

RECURSIVE ModLinesOf(_)
ModLinesOf(listed) ==
    IF listed = <<>> THEN <<>>
    ELSE <<"mod", " ", ModuleName(Head(listed)), ";", LF>> \o ModLinesOf(Tail(listed))

\* C18: after save_tests succeeded, main.rs is the line `extern crate
\* <package>;`, one line `mod <name>;` per snippet of the list in list order
\* and `fn main() {}`; every listed module has a file <name>.rs that holds
\* that snippet's program; there are no other files, so a document without
\* snippets contributes nothing.
C18_MainRsAndOneFilePerSnippet ==
    SaveSucceeded =>
        /\ files["main.rs"] =
               <<"extern", " ", "crate", " ", RunPackage, ";", LF>>
                   \o ModLinesOf(Listed)
                   \o <<"fn", " ", "main", "(", ")", " ", "{", "}">>
        /\ \A k \in DOMAIN Listed :
               /\ (ModuleName(Listed[k]) \o ".rs") \in DOMAIN files
               /\ files[ModuleName(Listed[k]) \o ".rs"]
                      = run_tests[Listed[k][1]][2][Listed[k][2]]
        /\ DOMAIN files =
               {"main.rs"} \cup {ModuleName(Listed[k]) \o ".rs" : k \in DOMAIN Listed}

\* cargo build succeeded in compile_tests
CargoSucceeded == cargo # None /\ cargo[1].ok

\* the artifacts cargo reported, in the order of its messages
Artifacts ==
    SelectSeq(cargo[1].messages,
              LAMBDA m : "reason" \in DOMAIN m.fields
                             /\ m.fields["reason"].s = <<"compiler-artifact">>)

TargetName(artifact) == artifact.fields["target"].fields["name"].s
FirstFileName(artifact) == artifact.fields["filenames"].items[1].s

\* the directory of a file "<dir>/<file>"
ContainingDir(path) == SubSeq(path, 1, Len(path) - 2)

RECURSIVE ExternPairs(_)
ExternPairs(artifacts) ==
    IF artifacts = <<>> THEN <<>>
    ELSE << <<"--extern">>,
            TargetName(Head(artifacts)) \o <<"=">> \o FirstFileName(Head(artifacts)) >>
             \o ExternPairs(Tail(artifacts))

\* the positions of an argument in the arguments of the compiler
ArgPositions(arg) == {i \in DOMAIN rustc[1].args : rustc[1].args[i] = arg}

\* C19: the compiler is invoked with exactly one -L, the directory of the
\* first artifact's first file, and with one pair `--extern <name>=<path>`
\* per artifact in discovery order, <name> the artifact's target name and
\* <path> its first file name; without any artifact compile_tests returns
\* an error and the compiler is not invoked.
C19_SearchPathAndExternPairs ==
    CargoSucceeded =>
        IF Artifacts = <<>>
        THEN rustc = None /\ run_outcome = "Err"
        ELSE /\ rustc # None
             /\ Cardinality(ArgPositions(<<"-L">>)) = 1
             /\ \A i \in ArgPositions(<<"-L">>) :
                    /\ i + 1 <= Len(rustc[1].args)
                    /\ rustc[1].args[i + 1] = ContainingDir(FirstFileName(Artifacts[1]))
                    /\ SubSeq(rustc[1].args, i + 2, Len(rustc[1].args)) = ExternPairs(Artifacts)
             /\ \A i \in ArgPositions(<<"--extern">>) : \A j \in ArgPositions(<<"-L">>) : i > j

\* C20: compile_tests returns the path of the test binary exactly when the
\* compiler exits with status zero; on another status the run ends with the
\* error that carries the compiler's standard error; and a binary is only
\* ever executed if it is the path a successful compile returned.
C20_BinaryOnlyAfterSuccessfulCompile ==
    /\ binary # None <=> (rustc # None /\ rustc[1].output.status = 0)
    /\ binary # None => binary[1] = SavePath \o <<"/">> \o TEST_NAME
    /\ (rustc # None /\ rustc[1].output.status # 0) =>
           /\ run_outcome = "Err"
           /\ run_error = Some(DocTestErr(rustc[1].output.stderr))
    /\ \A i \in DOMAIN executed : binary # None /\ executed[i].binary = binary[1]

\* the compiler was invoked and failed: the run ended with its standard
\* error and nothing was executed
C20_Witness ==
    /\ rustc # None
    /\ rustc[1].output.status = 1
    /\ binary = None
    /\ run_pc = "done"
    /\ run_error = Some(DocTestErr(<<"error">>))
    /\ executed = <<>>

\* C21: execute_tests returns Ok exactly when the test binary exits with
\* status zero, and when it exits with another status the run ends with the
\* error whose output is the text the binary wrote to its standard error.
C21_OkIffExitZeroElseStderr ==
    /\ run_outcome = "Ok" <=>
           (executed # <<>> /\ executed[Len(executed)].process.status = 0)
    /\ \A i \in DOMAIN executed :
           executed[i].process.status # 0 =>
               /\ run_outcome = "Err"
               /\ run_error = Some(DocTestErr(executed[i].process.stderr))

(***************************************************************************)
(* SpecAttributes: summary and plain_summary applied to one doc comment.   *)
(* The comment is made of up to MaxBlocks blocks (paragraphs with          *)
(* emphasis and code spans, a header, a fenced code block) joined by a     *)
(* line break, a blank line or a line of one space.                        *)
(***************************************************************************)
MaxBlocks == 3

MarkdownBlocks == { <<"a">>,
                    <<"*", "b", "*">>,
                    <<"x", BACKTICK, "y", BACKTICK>>,
                    <<"#", " ", "h">>,
                    <<BACKTICK, BACKTICK, BACKTICK, LF, "c", LF,
                      BACKTICK, BACKTICK, BACKTICK>> }

\* the doc comments of n blocks, each joined to the next by a line break,
\* an empty line or a line of one space
RECURSIVE Markdowns(_)
Markdowns(n) ==
    IF n = 0 THEN {<<>>}
    ELSE IF n = 1 THEN MarkdownBlocks
    ELSE {m \o s \o b : m \in Markdowns(n - 1),
                        s \in {<<LF>>, <<LF, LF>>, <<LF, " ", LF>>},
                        b \in MarkdownBlocks}

InitAttributes ==
    /\ BuildIdle
    /\ ApiIdle
    /\ TestIdle
    /\ TargetIdle
    /\ DocDataIdle
    /\ attr_markdown \in UNION {Markdowns(n) : n \in 0..MaxBlocks}
    /\ attr_summary = None
    /\ attr_plain = None

\* summary(&markdown)
Summary ==
    /\ attr_summary = None
    /\ attr_summary' = Some(summary(attr_markdown))
    /\ UNCHANGED <<buildVars, apiVars, testVars, targetVars, docDataVars,
                   attr_markdown, attr_plain>>

\* plain_summary(&markdown)
PlainSummary ==
    /\ attr_plain = None
    /\ attr_plain' = Some(plain_summary(attr_markdown))
    /\ UNCHANGED <<buildVars, apiVars, testVars, targetVars, docDataVars,
                   attr_markdown, attr_summary>>

NextAttributes ==
    \/ Summary
    \/ PlainSummary

SpecAttributes == InitAttributes /\ [][NextAttributes]_vars

\* the positions at which an empty line follows a line break
BlankLines(text) == {i \in 1..(Len(text) - 1) : text[i] = LF /\ text[i + 1] = LF}

\* the least element of a non-empty set of integers
Least(S) == CHOOSE x \in S : \A y \in S : x <= y

BlockStarts(events) ==
    {i \in DOMAIN events : events[i].ev = "Start" /\ events[i].tag \in {"Paragraph", "Header"}}

\* the text of the events from position i to the end of the block they lie
\* in: the characters of the text, a backtick at either end of a code span
\* and nothing for any other markup
RECURSIVE RenderedText(_, _)
RenderedText(events, i) ==
    IF i > Len(events) \/ (events[i].ev = "End" /\ events[i].tag \in {"Paragraph", "Header"})
    THEN <<>>
    ELSE (IF events[i].ev = "Text" THEN events[i].text
          ELSE IF events[i].ev \in {"Start", "End"} /\ events[i].tag = "Code"
               THEN <<BACKTICK>>
          ELSE <<>>) \o RenderedText(events, i + 1)

\* C23: plain_summary returns the rendered text of the first paragraph or
\* heading of the text, whichever comes first, markup removed except the
\* backticks of code spans, and no text of any other block, before or after.
C23_PlainSummaryIsFirstParagraphOrHeading ==
    attr_plain # None =>
        LET events == Parser(attr_markdown)
        IN  attr_plain[1] = IF BlockStarts(events) = {} THEN <<>>
                            ELSE RenderedText(events, Least(BlockStarts(events)) + 1)

(***************************************************************************)
(* Claims about the relationship methods of Document, on SpecApi.          *)
(***************************************************************************)
\* the Data passed under key ty by the calls from position i on, in order
RECURSIVE PassedFrom(_, _)
PassedFrom(ty, i) ==
    IF i > Len(api_calls) THEN <<>>
    ELSE (IF api_calls[i].ty = ty THEN <<api_calls[i].data>> ELSE <<>>)
             \o PassedFrom(ty, i + 1)

\* the relations of the Document under construction: key -> VecOrData
RelationsOf(doc) ==
    IF doc.relationships = None THEN EmptyMap
    ELSE [k \in DOMAIN doc.relationships[1] |-> doc.relationships[1][k].data]

\* C24: on a Document that only add_relationship was called on, each plural
\* relation holds exactly the Data passed with its key, in call order:
\* a call on an existing key appends and nothing is overwritten or dropped.
C24_AddRelationshipMerges ==
    (/\ api_pc[1] = "build"
     /\ \A i \in DOMAIN api_calls : api_calls[i].op = "add_relationship") =>
        /\ DOMAIN RelationsOf(api_document) = {api_calls[i].ty : i \in DOMAIN api_calls}
        /\ \A ty \in DOMAIN RelationsOf(api_document) :
               RelationsOf(api_document)[ty] = VecOf(PassedFrom(ty, 1))

\* two children of different kinds were added under the same key and the
\* relation holds both, in call order
C24_Witness ==
    /\ Len(api_calls) = 2
    /\ \A i \in 1..2 : api_calls[i].op = "add_relationship" /\ api_calls[i].ty = "modules"
    /\ api_calls[1].data = Data("module", "pkg::m")
    /\ api_calls[2].data = Data("struct", "pkg::S")
    /\ RelationsOf(api_document) =
           [k \in {"modules"} |-> VecOf(<<Data("module", "pkg::m"), Data("struct", "pkg::S")>>)]

\* C25: a call relationships(ty, data) leaves relation ty as exactly the
\* plural relation data, whether or not ty existed before, and leaves every
\* other relation and every other field of the Document as it was.
C25_RelationshipsOverwritesOneRelation ==
    [][(/\ Len(api_calls') = Len(api_calls) + 1
        /\ api_calls'[Len(api_calls')].op = "relationships")
       => LET call == api_calls'[Len(api_calls')]
              before == RelationsOf(api_document)
              after == RelationsOf(api_document')
          IN  /\ DOMAIN after = DOMAIN before \cup {call.ty}
              /\ after[call.ty] = VecOf(call.data)
              /\ \A k \in DOMAIN before \ {call.ty} : after[k] = before[k]
              /\ api_document'.ty = api_document.ty
              /\ api_document'.id = api_document.id
              /\ api_document'.attributes = api_document.attributes
      ]_vars

\* relationships was called on a key that add_relationship had filled: the
\* earlier entry is gone and the relation holds the new data only
C25_Witness ==
    /\ Len(api_calls) = 2
    /\ api_calls[1].op = "add_relationship" /\ api_calls[1].ty = "modules"
    /\ api_calls[1].data = Data("struct", "pkg::S")
    /\ api_calls[2].op = "relationships" /\ api_calls[2].ty = "modules"
    /\ api_calls[2].data = <<Data("module", "pkg::m")>>
    /\ RelationsOf(api_document) = [k \in {"modules"} |-> VecOf(<<Data("module", "pkg::m")>>)]

(***************************************************************************)
(* SpecTarget: target_from_metadata (src/src/cargo/mod.rs) applied to the  *)
(* targets array of the first package of the cargo metadata.  A target is  *)
(* its name and its kind array, as cargo prints them.                      *)
(***************************************************************************)
MaxTargets == 3

\* the targets arrays of n targets; the i-th target is named t<i> and its
\* kind array lists no kind, one kind or two
Targets(n) ==
    {[i \in 1..n |-> [name |-> "t" \o ToString(i), kind |-> kinds[i]]] :
         kinds \in [1..n -> {<<>>, <<"lib">>, <<"bin">>, <<"test">>, <<"lib", "rlib">>}]}

\* the closure handed to flat_map: Some(Err(..)) for a target that does not
\* list exactly one kind, Some(Ok(Target)) for a lib or bin target and None
\* for a target of another kind
TargetOf(target) ==
    IF Len(target.kind) # 1 THEN
        Some([ok |-> FALSE,
              err |-> [kind |-> "Json",
                       message |-> "expected one kind for target '" \o target.name \o "'"]])
    ELSE IF target.kind[1] = "lib" THEN
        Some([ok |-> TRUE, target |-> [name |-> target.name, kind |-> "Library"]])
    ELSE IF target.kind[1] = "bin" THEN
        Some([ok |-> TRUE, target |-> [name |-> target.name, kind |-> "Binary"]])
    ELSE None

\* .flat_map(..).collect::<Result<Vec<_>>>() from target i on: the first
\* Err met, or the Ok values in order
RECURSIVE Collect(_, _, _)
Collect(targets, i, acc) ==
    IF i > Len(targets) THEN [ok |-> TRUE, targets |-> acc]
    ELSE LET item == TargetOf(targets[i])
         IN  IF item = None THEN Collect(targets, i + 1, acc)
             ELSE IF ~item[1].ok THEN item[1]
             ELSE Collect(targets, i + 1, Append(acc, item[1].target))

\* a variant of PreferLibrary that takes the first supported target
PreferLibrary_First(targets) == targets[1]

\* the choice among several supported targets: the first library if there
\* is one, the first binary otherwise
PreferLibrary(targets) ==
    LET libs == SelectSeq(targets, LAMBDA t : t.kind = "Library")
        bins == SelectSeq(targets, LAMBDA t : t.kind = "Binary")
    IN  IF libs # <<>> THEN libs[1] ELSE bins[1]

\* cargo::target_from_metadata; warned tells whether ui.warn was called
target_from_metadata(targets) ==
    LET collected == Collect(targets, 1, <<>>)
    IN  IF ~collected.ok THEN collected
        ELSE IF collected.targets = <<>> THEN
            [ok |-> FALSE,
             err |-> [kind |-> "Json", message |-> "no targets with supported kinds found"]]
        ELSE IF Len(collected.targets) = 1 THEN
            [ok |-> TRUE, target |-> collected.targets[1], warned |-> FALSE]
        ELSE [ok |-> TRUE, target |-> PreferLibrary(collected.targets), warned |-> TRUE]

InitTarget ==
    /\ BuildIdle
    /\ ApiIdle
    /\ TestIdle
    /\ AttributesIdle
    /\ DocDataIdle
    /\ tgt_targets \in UNION {Targets(n) : n \in 0..MaxTargets}
    /\ tgt_result = None

\* target_from_metadata(&ui, &metadata)
TargetFromMetadata ==
    /\ tgt_result = None
    /\ tgt_result' = Some(target_from_metadata(tgt_targets))
    /\ UNCHANGED <<buildVars, apiVars, testVars, attributeVars, docDataVars, tgt_targets>>

NextTarget == TargetFromMetadata

SpecTarget == InitTarget /\ [][NextTarget]_vars

\* the positions of the targets whose one kind is the given one
OfKind(kind) == {i \in DOMAIN tgt_targets : tgt_targets[i].kind = <<kind>>}

\* the positions of the targets that list no kind or several
Malformed == {i \in DOMAIN tgt_targets : Len(tgt_targets[i].kind) # 1}

\* C26: target_from_metadata returns the only lib or bin target when there
\* is exactly one; among several it returns the first library if there is
\* one and the first binary otherwise; targets of another single kind count
\* for nothing; it returns an error when there is no lib or bin target or
\* when some target does not list exactly one kind.
C26_LibraryFirstThenBinary ==
    tgt_result # None =>
        LET result == tgt_result[1]
            supported == OfKind("lib") \cup OfKind("bin")
            chosen == IF OfKind("lib") # {} THEN Least(OfKind("lib")) ELSE Least(supported)
        IN  /\ result.ok <=> (Malformed = {} /\ supported # {})
            /\ result.ok =>
                   /\ result.target.name = tgt_targets[chosen].name
                   /\ result.target.kind = IF chosen \in OfKind("lib") THEN "Library"
                                           ELSE "Binary"

\* a binary, a test target and a library: the library is returned although
\* the binary comes first
C26_Witness ==
    /\ Len(tgt_targets) = 3
    /\ tgt_targets[1].kind = <<"bin">>
    /\ tgt_targets[2].kind = <<"test">>
    /\ tgt_targets[3].kind = <<"lib">>
    /\ tgt_result = Some([ok |-> TRUE, target |-> [name |-> "t3", kind |-> "Library"],
                          warned |-> TRUE])

(***************************************************************************)
(* SpecDocData: the traversal of DocData::new (src/src/lib.rs): recur on   *)
(* the root of a definition tree of up to MaxNodes definitions.  Every     *)
(* call of recur is a frame; the calls for the children of one definition  *)
(* are the items of a rayon parallel iterator, which any worker may run    *)
(* in any order, and whose results rayon reduces pairwise, neighbours      *)
(* first, in an order of its own choice.  A Def is stood for by its id.    *)
(***************************************************************************)
MaxNodes == 4

\* the definition trees of n definitions below the root
Trees(n) ==
    {[kind |-> [d \in 1..n |-> "Mod"], parents |-> [d \in 1..n |-> {p[d]}]] :
         p \in {q \in [1..n -> 0..n] : \A d \in 1..n : q[d] < d}}

\* a call of recur that a worker has not begun yet
Spawned == [state |-> "spawned", defs |-> <<>>, parts |-> <<>>]

InitDocData ==
    /\ host \in UNION {Trees(n) : n \in 0..MaxNodes}
    /\ crate_name = RootName
    /\ pc = "idle"
    /\ document = Document_new
    /\ queue = <<>>
    /\ included = <<>>
    /\ outcome = "running"
    /\ error = None
    /\ failedAt = None
    /\ documentation = None
    /\ ApiIdle
    /\ TestIdle
    /\ AttributesIdle
    /\ TargetIdle
    /\ dd_frames = [id \in {RootId} |-> Spawned]
    /\ dd_defs = None

\* a variant of Extend that puts the right-hand result first
Extend_Swapped(a, b) == b \o a

\* the reduce operator: a.extend(b); a
Extend(a, b) == a \o b

\* recur(id, host) up to into_par_iter: the children are enumerated, their
\* Defs are kept in defs and one call of recur per child is handed to rayon
Recur(id) ==
    /\ dd_defs = None
    /\ id \in DOMAIN dd_frames /\ dd_frames[id].state = "spawned"
    /\ LET ids == for_each_child_def(id)
       IN  dd_frames' = [n \in DOMAIN dd_frames \cup {ids[i] : i \in DOMAIN ids} |->
                            IF n = id THEN [state |-> "forked", defs |-> ids, parts |-> <<>>]
                            ELSE IF n \in DOMAIN dd_frames THEN dd_frames[n]
                            ELSE Spawned]
    /\ UNCHANGED <<buildVars, apiVars, testVars, attributeVars, targetVars, dd_defs>>

\* host.for_each_child_def(..) fails and unwrap() panics; rayon carries the
\* panic to the caller
RecurPanics(id) ==
    /\ dd_defs = None
    /\ id \in DOMAIN dd_frames /\ dd_frames[id].state = "spawned"
    /\ dd_defs' = Some([outcome |-> "Panic"])
    /\ UNCHANGED <<buildVars, apiVars, testVars, attributeVars, targetVars, dd_frames>>

\* rayon's reduce on the frame of id: two results that stand for
\* neighbouring runs of children, parts k and k + 1, become one
Reduce(id, k) ==
    /\ dd_defs = None
    /\ id \in DOMAIN dd_frames /\ dd_frames[id].state = "forked"
    /\ k + 1 \in DOMAIN dd_frames[id].parts
    /\ LET parts == dd_frames[id].parts
           a == parts[k]
           b == parts[k + 1]
       IN  /\ a.last + 1 = b.first
           /\ dd_frames' = [dd_frames EXCEPT ![id].parts =
                  SubSeq(parts, 1, k - 1)
                      \o <<[first |-> a.first, last |-> b.last, defs |-> Extend(a.defs, b.defs)]>>
                      \o SubSeq(parts, k + 2, Len(parts))]
    /\ UNCHANGED <<buildVars, apiVars, testVars, attributeVars, targetVars, dd_defs>>

\* the end of recur(id, host): the reduction of the children's results is
\* complete (Vec::new() when there is no child), defs.extend(child_defs),
\* and defs is returned: to DocData::new by the outermost call, as the
\* mapped item of the parent's parallel iterator by every other call
Return(id) ==
    /\ dd_defs = None
    /\ id \in DOMAIN dd_frames /\ dd_frames[id].state = "forked"
    /\ LET frame == dd_frames[id]
           complete == \/ frame.defs = <<>>
                       \/ /\ Len(frame.parts) = 1
                          /\ frame.parts[1].first = 1
                          /\ frame.parts[1].last = Len(frame.defs)
           child_defs == IF frame.defs = <<>> THEN <<>> ELSE frame.parts[1].defs
           defs == Extend(frame.defs, child_defs)
       IN  /\ complete
           /\ IF id = RootId THEN
                  /\ dd_defs' = Some([outcome |-> "Ok", defs |-> defs])
                  /\ dd_frames' = [dd_frames EXCEPT ![id].state = "returned"]
              ELSE
                  LET up == CHOOSE p \in host.parents[id] : TRUE
                      position == CHOOSE i \in DOMAIN dd_frames[up].defs :
                                      dd_frames[up].defs[i] = id
                      part == [first |-> position, last |-> position, defs |-> defs]
                      before == SelectSeq(dd_frames[up].parts, LAMBDA x : x.last < position)
                      after == SelectSeq(dd_frames[up].parts, LAMBDA x : x.first > position)
                  IN  /\ dd_frames' = [dd_frames EXCEPT ![id].state = "returned",
                                                       ![up].parts = before \o <<part>> \o after]
                      /\ UNCHANGED dd_defs
    /\ UNCHANGED <<buildVars, apiVars, testVars, attributeVars, targetVars>>

NextDocData ==
    \E id \in 0..MaxNodes :
        \/ Recur(id)
        \/ RecurPanics(id)
        \/ \E k \in 1..MaxNodes : Reduce(id, k)
        \/ Return(id)

SpecDocData == InitDocData /\ [][NextDocData]_vars

\* the sequence the claim describes for the subtree below id: the children
\* of id in enumeration order, then what it describes for each child, in
\* child order
RECURSIVE Below(_)
RECURSIVE BelowEach(_)
BelowEach(ids) ==
    IF ids = <<>> THEN <<>> ELSE Below(Head(ids)) \o BelowEach(Tail(ids))
Below(id) == for_each_child_def(id) \o BelowEach(for_each_child_def(id))

\* C27: whatever the order in which the workers ran the calls and rayon
\* reduced their results, the traversal that returns has collected every
\* definition below the root exactly once, in the one order the claim
\* describes.
C27_TraversalIndependentOfSchedule ==
    (dd_defs # None /\ dd_defs[1].outcome = "Ok") =>
        /\ dd_defs[1].defs = Below(RootId)
        /\ \A d \in DOMAIN host.parents :
               Cardinality({i \in DOMAIN dd_defs[1].defs : dd_defs[1].defs[i] = d}) = 1

\* two children of the root with one child each: the traversal returned
\* the children, then the grandchildren in the order of their parents
C27_Witness ==
    /\ host.parents = <<{0}, {0}, {1}, {2}>>
    /\ dd_defs = Some([outcome |-> "Ok", defs |-> <<1, 2, 3, 4>>])

(***************************************************************************)
(* Claims about the Documentation as a whole, on Spec.                     *)
(***************************************************************************)
\* the Documents of the output by position: 0 is the root, i the i-th of
\* included
DocumentAt(j) == IF j = 0 THEN TheData ELSE TheIncluded[j]

\* the places <<Document, key, index>> where a plural relation of a
\* Document of the output holds the given Data entry
PluralReferences(entry) ==
    UNION {UNION {{<<j, key, k>> :
                      k \in {n \in DOMAIN Relation(DocumentAt(j), key).vec :
                                Relation(DocumentAt(j), key).vec[n] = entry}} :
                  key \in {x \in RelationKeys(DocumentAt(j)) :
                              Relation(DocumentAt(j), x).variant = "Vec"}} :
           j \in 0..Len(TheIncluded)}

\* C28: in the Documentation returned for a definition tree, every Data
\* entry of every relationship, plural or the singular "parent", is the
\* {type, id} of exactly one Document of included, and every Document of
\* included is referenced by exactly one plural Data entry.
C28_EntriesAndIncludedOneToOne ==
    (Returned /\ IsTree) =>
        /\ \A j \in 0..Len(TheIncluded) : \A entry \in AllData(DocumentAt(j)) :
               Cardinality({i \in DOMAIN TheIncluded : TypeAndId(TheIncluded[i]) = entry}) = 1
        /\ \A i \in DOMAIN TheIncluded :
               Cardinality(PluralReferences(TypeAndId(TheIncluded[i]))) = 1

\* the provenance of a listed snippet: the id of its Document and its
\* ordinal among that Document's snippets
Provenance(l) == <<run_tests[l[1]][1], l[2] - 1>>

\* C29: after save_tests succeeded, two snippets of different provenance
\* have different names, so every snippet has a file of its own and no
\* module is declared twice in main.rs.
C29_DistinctProvenanceDistinctNames ==
    SaveSucceeded =>
        /\ \A k, l \in DOMAIN Listed :
               Provenance(Listed[k]) # Provenance(Listed[l]) =>
                   ModuleName(Listed[k]) # ModuleName(Listed[l])
        /\ Cardinality(DOMAIN files \ {"main.rs"}) = Len(Listed)

\* what the lines of a region contribute, each contribution separated from
\* the next by a line break
RECURSIVE SeparatedLines(_)
SeparatedLines(lines) ==
    IF lines = <<>> THEN <<>>
    ELSE IF Len(lines) = 1 THEN trimmed_line(Head(lines))
    ELSE trimmed_line(Head(lines)) \o <<LF>> \o SeparatedLines(Tail(lines))

\* C30: in the snippet of a testable region the text that one line
\* contributes is separated by a line break from the text the next line
\* contributes (a line break after the last line is left open).
C30_LineBreaksSurviveExtraction ==
    Gathered =>
        \A k \in DOMAIN dt_blocks :
            k \in DOMAIN TestableBlocks =>
                dt_blocks[k] \in {SeparatedLines(TestableBlocks[k].lines),
                                  SeparatedLines(TestableBlocks[k].lines) \o <<LF>>}

====
